---- MODULE Spec2Model ----
(***************************************************************************)
(* A model of the document aggregator of mcp-dev-standards:                *)
(*   - Cache<T>            (src/src/utils/cache.ts)                        *)
(*   - StandardsManager    (src/src/utils/manager.ts)                      *)
(* The manager's async methods are cut at their await points: everything   *)
(* between two awaits runs as one step of the JavaScript event loop.       *)
(* Time is in milliseconds, as returned by Date.now().                     *)
(***************************************************************************)
EXTENDS Integers, Sequences, FiniteSets, TLC

(* ------------------------------ bounds --------------------------------- *)
\* number of entries of config.sources
NumSources == 2
\* number of initialize()/refresh() calls made on one manager
MaxCalls == 3
\* number of calls begun while an earlier call had not yet returned
MaxOverlaps == 1
\* the clock stops advancing here
MaxNow == 1200
\* number of load() calls that reject, over all sources and all calls
MaxRejects == 1

\* number of editions of the content behind the sources
MaxEditions == 2
\* number of documents in the directory of guides
NumGuides == 12
\* number of records in the body of a JSON API response
MaxRecords == 3
\* number of Markdown files in the directory a GitSource reads
MaxFiles == 2
\* number of entries of the directory a LocalSource reads
MaxEntries == 2

\* amounts by which the clock advances between two steps of a cache client,
\* and between two steps of the manager
Advances == {500, 600}
ManagerAdvances == {1200}
\* config.cacheTimeout values (seconds) a manager is constructed with
CacheTimeouts == {1}
\* keys, values, defaultTTL and ttl arguments used by a direct client of
\* Cache<string> (the values of cache.test.ts); <<>> is an omitted ttl
Keys == {"key1", "key2"}
Values == {"value1", "value2"}
DefaultTTLs == {1000, 10000}
TTLArgs == {<<>>, <<500>>, <<2000>>}

\* ids and categories a client of the server asks for (the ids of the tools'
\* tests and the default config.categories)
QueryIds == {"frontend-vue-components", "backend-api-restful", "non-existent"}
QueryCategories == {"frontend", "backend", "custom"}

VARIABLES
    config,       \* StandardsManager.config: [sources, cacheTimeout]
    store,        \* Cache.store: key -> [data, timestamp, expiresAt]
    defaultTTL,   \* Cache.defaultTTL
    documents,    \* StandardsManager.documents (the corpus)
    sources,      \* StandardsManager.sources (the adapter list)
    initialized,  \* StandardsManager.initialized
    calls,        \* the initialize()/refresh() calls made so far, in call order
    now,          \* Date.now()
    op,           \* the last Cache method a direct client called, with its arguments
    ret,          \* what that method returned
    written,      \* per key, the most recent set() not followed by delete()/clear()
    rejects,      \* the number of load() calls that have rejected
    overlaps,     \* the number of calls begun while an earlier one had not returned
    edition,      \* how many times the content behind the sources has been edited, plus one
    remote,       \* a RemoteSource.load() call in JSON-API mode: its response and progress
    git,          \* a GitSource.load() call: the repository's answers and its progress
    local         \* a LocalSource.load() call: the disk it reads and its progress

vars == <<config, store, defaultTTL, documents, sources, initialized, calls,
          now, op, ret, written, rejects, overlaps, edition, remote, git, local>>

managerVars == <<config, documents, sources, initialized, calls, rejects, overlaps>>
clientVars == <<op, ret, written>>
adapterVars == <<edition, remote, git, local>>

(* ------------------------------ helpers -------------------------------- *)
Range(s) == {s[i] : i \in DOMAIN s}

EmptyMap == [k \in {} |-> 0]

\* an optional value: <<>> is undefined, <<v>> is v
Undefined == <<>>
Some(v) == <<v>>

\* a ?? b
Nullish(a, b) == IF a = Undefined THEN b ELSE a[1]

\* Array.prototype.map
RECURSIVE MapSeq(_, _)
MapSeq(F(_), seq) ==
    IF seq = <<>> THEN <<>> ELSE <<F(Head(seq))>> \o MapSeq(F, Tail(seq))

\* Array.prototype.filter
RECURSIVE FilterSeq(_, _)
FilterSeq(P(_), seq) ==
    IF seq = <<>> THEN <<>>
    ELSE (IF P(Head(seq)) THEN <<Head(seq)>> ELSE <<>>) \o FilterSeq(P, Tail(seq))

\* what a call returns: a value, or an exception raised on the way
Returned(value) == [raised |-> FALSE, value |-> value]
Raised == [raised |-> TRUE, value |-> <<>>]

(* ------------------------------ Cache ---------------------------------- *)
\* cache.ts:48 and :83, the expiry test
ExpiredAlsoAtExpiry(entry, t) == t >= entry.expiresAt

Expired(entry, t) == t > entry.expiresAt

\* cache.ts:24-33, Map.set
CacheSetKeepsEntry(st, t, key, data, ttl, dttl) ==
    IF key \in DOMAIN st THEN st
    ELSE [k \in (DOMAIN st) \cup {key} |->
            IF k = key
            THEN [data |-> data, timestamp |-> t, expiresAt |-> t + Nullish(ttl, dttl)]
            ELSE st[k]]

CacheSet(st, t, key, data, ttl, dttl) ==
    [k \in (DOMAIN st) \cup {key} |->
        IF k = key
        THEN [data |-> data, timestamp |-> t, expiresAt |-> t + Nullish(ttl, dttl)]
        ELSE st[k]]

\* cache.ts:66-68 and :49, Map.delete
MapDelete(st, key) == [k \in (DOMAIN st) \ {key} |-> st[k]]

\* cache.ts:40-54, the value get() returns
CacheGetData(st, t, key) ==
    IF key \notin DOMAIN st THEN Undefined
    ELSE IF Expired(st[key], t) THEN Undefined
    ELSE Some(st[key].data)

\* cache.ts:40-54, the store get() leaves behind
CacheGetStore(st, t, key) ==
    IF key \in DOMAIN st /\ Expired(st[key], t) THEN MapDelete(st, key) ELSE st

\* cache.ts:59-61
CacheHasBare(st, t, key) == key \in DOMAIN st

CacheHas(st, t, key) == CacheGetData(st, t, key) # Undefined

\* cache.ts:73-75
CacheClearNothing(st) == st

CacheClear(st) == EmptyMap

\* cache.ts:80-87
CacheCleanupByAge(st, t) == [k \in {k \in DOMAIN st : ~(t > st[k].timestamp)} |-> st[k]]

CacheCleanup(st, t) == [k \in {k \in DOMAIN st : ~Expired(st[k], t)} |-> st[k]]

\* cache.ts:92-94
CacheSize(st) == Cardinality(DOMAIN st)

(* ------------------------------ strings -------------------------------- *)
\* String.prototype.toLowerCase on one character
UpperCase == <<"A", "B", "C", "D", "E", "F", "G", "H", "I", "J", "K", "L", "M",
               "N", "O", "P", "Q", "R", "S", "T", "U", "V", "W", "X", "Y", "Z">>
LowerCase == <<"a", "b", "c", "d", "e", "f", "g", "h", "i", "j", "k", "l", "m",
               "n", "o", "p", "q", "r", "s", "t", "u", "v", "w", "x", "y", "z">>

LowerChar(ch) ==
    IF \E k \in DOMAIN UpperCase : UpperCase[k] = ch
    THEN LowerCase[CHOOSE k \in DOMAIN UpperCase : UpperCase[k] = ch]
    ELSE ch

\* String.prototype.toLowerCase
ToLowerCase(str) == [i \in DOMAIN str |-> LowerChar(str[i])]

\* the characters /\s/ matches, of those the model's strings use
IsSpace(ch) == ch \in {" ", "\t", "\n"}

\* String.prototype.trim
RECURSIVE Trim(_)
Trim(str) ==
    IF str = <<>> THEN <<>>
    ELSE IF IsSpace(Head(str)) THEN Trim(Tail(str))
    ELSE IF IsSpace(str[Len(str)]) THEN Trim(SubSeq(str, 1, Len(str) - 1))
    ELSE str

\* String.prototype.includes
Includes(str, part) ==
    \E i \in 0..(Len(str) - Len(part)) : SubSeq(str, i + 1, i + Len(part)) = part

\* String.prototype.split(/\s+/): the pieces between the runs of white space,
\* with an empty piece before a leading and after a trailing run
RECURSIVE SplitFrom(_, _, _)
SplitFrom(str, i, piece) ==
    IF i > Len(str) THEN <<piece>>
    ELSE IF IsSpace(str[i])
    THEN (IF i > 1 /\ IsSpace(str[i - 1])
          THEN SplitFrom(str, i + 1, piece)
          ELSE <<piece>> \o SplitFrom(str, i + 1, <<>>))
    ELSE SplitFrom(str, i + 1, Append(piece, str[i]))

SplitSpaces(str) == SplitFrom(str, 1, <<>>)

(* ------------------------------- parser -------------------------------- *)
\* String.prototype.startsWith and endsWith
StartsWith(str, part) == Len(part) <= Len(str) /\ SubSeq(str, 1, Len(part)) = part

EndsWith(str, part) ==
    Len(part) <= Len(str) /\ SubSeq(str, Len(str) - Len(part) + 1, Len(str)) = part

\* the characters of str from position i on
From(str, i) == SubSeq(str, i, Len(str))

\* String.prototype.indexOf, counted from 1; 0 when part does not occur
IndexOf(str, part) ==
    IF Includes(str, part)
    THEN CHOOSE i \in 1..(Len(str) - Len(part) + 1) :
            /\ SubSeq(str, i, i + Len(part) - 1) = part
            /\ \A j \in 1..(i - 1) : SubSeq(str, j, j + Len(part) - 1) # part
    ELSE 0

\* String.prototype.split on one character
RECURSIVE SplitOn(_, _)
SplitOn(str, ch) ==
    IF IndexOf(str, <<ch>>) = 0 THEN <<str>>
    ELSE <<SubSeq(str, 1, IndexOf(str, <<ch>>) - 1)>>
         \o SplitOn(From(str, IndexOf(str, <<ch>>) + 1), ch)

\* String.prototype.replace(/x/g, y) for one character x
ReplaceAll(str, x, y) == [i \in DOMAIN str |-> IF str[i] = x THEN y ELSE str[i]]

\* the fence of a front matter block
Fence == <<"-", "-", "-">>

\* unnamed/part_001:19, matter(content): the front matter of a text that
\* begins with a fence, as a list of [key, value] read from its lines
\* "key: value", and the text after the closing fence; it throws when a line
\* of the block does not parse: one without "key: value", or one whose value
\* opens a flow sequence and does not close it
Matter(content) ==
    LET KeySeparator == <<":", " ">>
        MatterKey(line) == SubSeq(line, 1, IndexOf(line, KeySeparator) - 1)
        MatterValue(line) ==
            Trim(From(line, IndexOf(line, KeySeparator) + Len(KeySeparator)))
        Unparsable(line) ==
            \/ IndexOf(line, KeySeparator) = 0
            \/ /\ StartsWith(MatterValue(line), <<"[">>)
               /\ ~EndsWith(MatterValue(line), <<"]">>)
        rest == From(content, Len(Fence) + 1)
        close == IndexOf(rest, <<"\n">> \o Fence)
        block == IF close = 0 THEN rest ELSE SubSeq(rest, 1, close - 1)
        after == IF close = 0 THEN <<>> ELSE From(rest, close + 1 + Len(Fence))
        body == IF after # <<>> /\ Head(after) = "\n" THEN Tail(after) ELSE after
        lines == FilterSeq(LAMBDA line : Trim(line) # <<>>, SplitOn(block, "\n"))
    IN  IF ~StartsWith(content, Fence)
        THEN [raised |-> FALSE, data |-> <<>>, content |-> content]
        ELSE IF \E k \in DOMAIN lines : Unparsable(lines[k])
        THEN [raised |-> TRUE, data |-> <<>>, content |-> <<>>]
        ELSE [raised |-> FALSE,
              data |-> [k \in DOMAIN lines |->
                          [key |-> MatterKey(lines[k]), value |-> MatterValue(lines[k])]],
              content |-> body]

\* frontmatter[key]: the value of the last line with this key, the empty
\* string when there is none
RECURSIVE Field(_, _)
Field(data, key) ==
    IF data = <<>> THEN <<>>
    ELSE IF data[Len(data)].key = key THEN data[Len(data)].value
    ELSE Field(SubSeq(data, 1, Len(data) - 1), key)

\* a || b on strings
OrElse(a, b) == IF a # <<>> THEN a ELSE b

\* unnamed/part_001:60-63 and :88-90: '\' becomes '/', a leading './' or '/'
\* is dropped
CleanPath(filePath) ==
    LET normalized == ReplaceAll(filePath, "\\", "/")
    IN  IF StartsWith(normalized, <<".", "/">>) THEN From(normalized, 3)
        ELSE IF StartsWith(normalized, <<"/">>) THEN From(normalized, 2)
        ELSE normalized

\* unnamed/part_001:87-96: a leading 'standards/' and a trailing '.md', in any
\* case, are dropped, '/' becomes '-', and the rest is put in lower case
GenerateId(filePath) ==
    LET StandardsPrefix == <<"s", "t", "a", "n", "d", "a", "r", "d", "s", "/">>
        clean == CleanPath(filePath)
        inner == IF StartsWith(clean, StandardsPrefix)
                 THEN From(clean, Len(StandardsPrefix) + 1) ELSE clean
        named == IF EndsWith(ToLowerCase(inner), <<".", "m", "d">>)
                 THEN SubSeq(inner, 1, Len(inner) - 3) ELSE inner
    IN  ToLowerCase(ReplaceAll(named, "/", "-"))

\* unnamed/part_001:66-77, the category of a path
PathCategory(filePath) ==
    LET parts == SplitOn(CleanPath(filePath), "/")
        kept == IF Head(parts) = <<"s", "t", "a", "n", "d", "a", "r", "d", "s">>
                THEN Tail(parts) ELSE parts
    IN  IF kept = <<>> \/ Head(kept) = <<>> THEN <<"c", "u", "s", "t", "o", "m">>
        ELSE Head(kept)

\* unnamed/part_001:66-78, the subcategory of a path: the second of the parts
\* left when there are more than two, undefined otherwise
PathSubcategory(filePath) ==
    LET parts == SplitOn(CleanPath(filePath), "/")
        kept == IF Head(parts) = <<"s", "t", "a", "n", "d", "a", "r", "d", "s">>
                THEN Tail(parts) ELSE parts
    IN  IF Len(kept) > 2 THEN Some(kept[2]) ELSE Undefined

\* unnamed/part_001:170-174
IsValidMarkdown(content) == content # <<>> /\ Len(Trim(content)) # 0

\* unnamed/part_001:13-47, parseMarkdown: the id, category, subcategory,
\* source, path, content and frontmatter of the document it returns; it
\* throws when matter() does
ParseMarkdown(content, filePath, source) ==
    LET parsed == Matter(content)
    IN  IF parsed.raised THEN Raised
        ELSE Returned([id |-> OrElse(Field(parsed.data, <<"i", "d">>), GenerateId(filePath)),
                       category |-> OrElse(Field(parsed.data,
                                        <<"c", "a", "t", "e", "g", "o", "r", "y">>),
                                        PathCategory(filePath)),
                       subcategory |->
                           IF Field(parsed.data, <<"s", "u", "b", "c", "a", "t", "e", "g",
                                                   "o", "r", "y">>) # <<>>
                           THEN Some(Field(parsed.data, <<"s", "u", "b", "c", "a", "t", "e",
                                                          "g", "o", "r", "y">>))
                           ELSE PathSubcategory(filePath),
                       source |-> source,
                       path |-> filePath,
                       content |-> Trim(parsed.content),
                       frontmatter |-> parsed.data])

(* ----------------------------- RemoteSource ---------------------------- *)
\* resolve-standard.ts:69-79, records of a JSON API: one with plain content,
\* one with a front matter block, one with the empty string as content, one
\* with blank content, one whose front matter opens a list and never closes
\* it, and one with no title
ApiRecord ==
    [plain |->
        [id |-> <<"n", "a", "m", "i", "n", "g">>,
         title |-> <<"N", "a", "m", "i", "n", "g">>,
         description |-> <<>>,
         category |-> <<"b", "a", "c", "k", "e", "n", "d">>,
         tags |-> <<<<"a", "p", "i">>>>,
         content |-> <<"#", " ", "N", "a", "m", "i", "n", "g", "\n", "\n", "r", "u", "l", "e", "s">>,
         absent |-> {"description"}],
     matter |->
        [id |-> <<"E", "r", "r", "o", "r", "s">>,
         title |-> <<"E", "r", "r", "o", "r", "s">>,
         description |-> <<>>,
         category |-> <<"b", "a", "c", "k", "e", "n", "d">>,
         tags |-> <<>>,
         content |-> <<"-", "-", "-", "\n", "t", "i", "t", "l", "e", ":", " ", "E", "r", "r", "o",
                       "r", "s", "\n", "-", "-", "-", "\n", "\n", "c", "o", "d", "e", "s", "\n">>,
         absent |-> {"description", "tags"}],
     empty |->
        [id |-> <<"e", "m", "p", "t", "y">>,
         title |-> <<"E", "m", "p", "t", "y">>,
         description |-> <<>>,
         category |-> <<"c", "u", "s", "t", "o", "m">>,
         tags |-> <<>>,
         content |-> <<>>,
         absent |-> {"description", "tags"}],
     blank |->
        [id |-> <<"b", "l", "a", "n", "k">>,
         title |-> <<"B", "l", "a", "n", "k">>,
         description |-> <<>>,
         category |-> <<"c", "u", "s", "t", "o", "m">>,
         tags |-> <<>>,
         content |-> <<" ", "\n", " ">>,
         absent |-> {"description", "tags"}],
     broken |->
        [id |-> <<"b", "r", "o", "k", "e", "n">>,
         title |-> <<"B", "r", "o", "k", "e", "n">>,
         description |-> <<>>,
         category |-> <<"c", "u", "s", "t", "o", "m">>,
         tags |-> <<>>,
         content |-> <<"-", "-", "-", "\n", "t", "a", "g", "s", ":", " ", "[", "a", ",", "\n",
                       "-", "-", "-", "\n", "t", "e", "x", "t">>,
         absent |-> {"description", "tags"}],
     untitled |->
        [id |-> <<"u", "n", "t", "i", "t", "l", "e", "d">>,
         title |-> <<>>,
         description |-> <<>>,
         category |-> <<"c", "u", "s", "t", "o", "m">>,
         tags |-> <<>>,
         content |-> <<"t", "e", "x", "t">>,
         absent |-> {"title", "description", "tags"}]]

\* resolve-standard.ts:229-265, transformStandards: a record without content
\* or with blank content is passed over (:233); one whose content begins with
\* a fence is parsed under the path category/id.md (:238-244); of any other
\* the record's own metadata is the document, no tags read as none
\* (:247-260). The loop has no handler, so what parseMarkdown throws leaves
\* the method
RECURSIVE TransformFrom(_, _)
TransformFrom(standards, out) ==
    IF standards = <<>> THEN Returned(out)
    ELSE LET standard == Head(standards)
             doc == ParseMarkdown(standard.content,
                                  standard.category \o <<"/">> \o standard.id
                                      \o <<".", "m", "d">>,
                                  "remote")
         IN  IF \/ "content" \in standard.absent
                \/ standard.content = <<>>
                \/ ~IsValidMarkdown(standard.content)
             THEN TransformFrom(Tail(standards), out)
             ELSE IF StartsWith(standard.content, Fence)
             THEN IF doc.raised THEN Raised
                  ELSE TransformFrom(Tail(standards), Append(out, doc.value))
             ELSE TransformFrom(Tail(standards),
                                Append(out, [standard EXCEPT !.absent = @ \ {"tags"}]))

TransformStandards(standards) == TransformFrom(standards, <<>>)

\* resolve-standard.ts:200-224, loadFromApi on a response: fetch rejected,
\* a status outside 2xx, a body that is not JSON, or an object that holds the
\* records under standards, under data, or not at all; every failure inside
\* the try block resolves to no documents
LoadFromApi(response) ==
    IF response.kind # "ok" THEN <<>>
    ELSE LET standards == IF response.field = "none" THEN <<>> ELSE response.standards
             transformed == TransformStandards(standards)
         IN  IF transformed.raised THEN <<>> ELSE transformed.value

(* ----------------------------- documents ------------------------------- *)
\* types/index.ts:235-260, the two documents of the tools' tests; a string is
\* the sequence of its characters (one outside ASCII is written by its code
\* point), and absent names the fields that are undefined
VueComponents ==
    [id |-> <<"f", "r", "o", "n", "t", "e", "n", "d", "-", "v", "u", "e", "-", "c",
                "o", "m", "p", "o", "n", "e", "n", "t", "s">>,
     title |-> <<"V", "u", "e", " ", "3", " ", "u7ec4", "u4ef6", "u5f00", "u53d1",
                   "u89c4", "u8303">>,
     description |-> <<"V", "u", "e", " ", "3", " ", "u7ec4", "u4ef6", "u7684",
                         "u7f16", "u5199", "u89c4", "u8303", "u548c", "u6700", "u4f73",
                         "u5b9e", "u8df5">>,
     category |-> <<"f", "r", "o", "n", "t", "e", "n", "d">>,
     tags |-> <<<<"v", "u", "e">>, <<"v", "u", "e", "3">>, <<"c", "o", "m", "p", "o", "n", "e", "n", "t">>>>,
     content |-> <<"#", " ", "V", "u", "e", " ", "3", " ", "u7ec4", "u4ef6", "u5f00",
                     "u53d1", "u89c4", "u8303", "\n", "\n", "u8fd9", "u662f", "u7ec4",
                     "u4ef6", "u89c4", "u8303", "u5185", "u5bb9", ".", ".", ".">>,
     absent |-> {}]

ApiRestful ==
    [id |-> <<"b", "a", "c", "k", "e", "n", "d", "-", "a", "p", "i", "-", "r", "e",
                "s", "t", "f", "u", "l">>,
     title |-> <<"R", "E", "S", "T", "f", "u", "l", " ", "A", "P", "I", " ", "u8bbe",
                   "u8ba1", "u89c4", "u8303">>,
     description |-> <<"R", "E", "S", "T", "f", "u", "l", " ", "A", "P", "I", " ",
                         "u7684", "u8bbe", "u8ba1", "u89c4", "u8303", "u548c", "u6700",
                         "u4f73", "u5b9e", "u8df5">>,
     category |-> <<"b", "a", "c", "k", "e", "n", "d">>,
     tags |-> <<<<"a", "p", "i">>, <<"r", "e", "s", "t", "f", "u", "l">>, <<"h", "t", "t", "p">>>>,
     content |-> <<"#", " ", "R", "E", "S", "T", "f", "u", "l", " ", "A", "P", "I",
                     " ", "u8bbe", "u8ba1", "u89c4", "u8303", "\n", "\n", "u8fd9",
                     "u662f", " ", "A", "P", "I", " ", "u89c4", "u8303", "u5185",
                     "u5bb9", ".", ".", ".">>,
     absent |-> {}]

\* documents in which a term occurs in one field only: the description, the
\* category, or two tags and the content
TeamDocument ==
    [naming |->
        [id |-> <<"t", "e", "a", "m", "-", "n", "a", "m", "i", "n", "g">>,
         title |-> <<"N", "a", "m", "i", "n", "g">>,
         description |-> <<"A", "P", "I", " ", "n", "a", "m", "i", "n", "g">>,
         category |-> <<"b", "a", "c", "k", "e", "n", "d">>,
         tags |-> <<>>,
         content |-> <<"r", "u", "l", "e", "s">>,
         absent |-> {}],
     errors |->
        [id |-> <<"t", "e", "a", "m", "-", "e", "r", "r", "o", "r", "s">>,
         title |-> <<"E", "r", "r", "o", "r", "s">>,
         description |-> <<>>,
         category |-> <<"a", "p", "i">>,
         tags |-> <<>>,
         content |-> <<"e", "r", "r", "o", "r", "s">>,
         absent |-> {}],
     notes |->
        [id |-> <<"t", "e", "a", "m", "-", "n", "o", "t", "e", "s">>,
         title |-> <<"N", "o", "t", "e", "s">>,
         description |-> <<>>,
         category |-> <<"c", "u", "s", "t", "o", "m">>,
         tags |-> <<<<"h", "t", "t", "p", " ", "a", "p", "i">>, <<"A", "p", "i">>>>,
         content |-> <<"s", "e", "e", " ", "a", "p", "i">>,
         absent |-> {}]]

\* the decimal digits of a natural number
RECURSIVE Decimal(_)
Decimal(i) ==
    LET Digits == <<"0", "1", "2", "3", "4", "5", "6", "7", "8", "9">>
    IN  IF i < 10 THEN <<Digits[i + 1]>>
        ELSE Decimal(i \div 10) \o <<Digits[(i % 10) + 1]>>

\* the i-th of a directory of guides that all mention one topic: every third
\* one in its title only, every third one in a tag only, the others in both
Guide(i) ==
    [id |-> <<"g", "u", "i", "d", "e", "-">> \o Decimal(i),
     title |-> IF i % 3 = 1 THEN <<"G", "u", "i", "d", "e">>
               ELSE <<"V", "u", "e", " ", "g", "u", "i", "d", "e">>,
     description |-> <<>>,
     category |-> <<"f", "r", "o", "n", "t", "e", "n", "d">>,
     tags |-> IF i % 3 = 2 THEN <<>> ELSE <<<<"v", "u", "e">>>>,
     content |-> <<"g", "u", "i", "d", "e">>,
     absent |-> {}]

\* the sources a server is configured with, beyond the plain ones: the
\* directory of the tools' tests, a team's directory, the guides, and a JSON
\* API whose second record has no title
TestStandards == 101
TeamStandards == 102
Guides == 103
TeamApi == 104

LibraryDocs(s) ==
    IF s = TestStandards THEN <<VueComponents, ApiRestful>>
    ELSE IF s = TeamStandards
    THEN <<TeamDocument.naming, TeamDocument.errors, TeamDocument.notes>>
    ELSE IF s = Guides THEN [i \in 1..NumGuides |-> Guide(i)]
    ELSE LoadFromApi([kind |-> "ok", field |-> "standards",
                      standards |-> <<ApiRecord.plain, ApiRecord.untitled>>])

(* ------------------------- source adapters ----------------------------- *)
\* no RemoteSource.load(), GitSource.load() or LocalSource.load() has been
\* called
NoRemote == [pc |-> "idle"]
NoGit == [pc |-> "idle"]
NoLocal == [pc |-> "idle"]

\* unnamed/part_001:25, the id of the k-th document of a source: every source
\* holds frontend/vue/components.md first, which the parser names by its path
DocId(k) == IF k = 1 THEN "frontend-vue-components" ELSE "backend-api-restful"

\* unnamed/part_001:37, its category, the first segment of its path
DocCategory(k) == IF k = 1 THEN "frontend" ELSE "backend"

\* a document, named by the source that produced it and its place in that
\* source's discovery order; its version (front matter) and content are those
\* of the edition it was read from
Doc(s, k) ==
    [src |-> s, n |-> k, id |-> DocId(k), category |-> DocCategory(k),
     version |-> edition, content |-> edition]

\* manager.ts:13-15, what load() of the adapter of config.sources[s] resolves
\* to when it does not reject
SourceDocs(s) ==
    IF s = 1 THEN <<Doc(1, 1), Doc(1, 2)>>
    ELSE IF s < TestStandards THEN <<Doc(s, 1)>>
    ELSE LibraryDocs(s)

\* config.sources, each source named by its position
ConfigSources == [i \in 1..NumSources |-> i]

(* --------------------------- StandardsManager -------------------------- *)
\* manager.ts:65 and :83, the cache key of the corpus
AllDocuments == "all-documents"

\* manager.ts:65
CachedDocsNever(st, t) == Undefined

CachedDocs(st, t) == CacheGetData(st, t, AllDocuments)

\* manager.ts:74-79, allDocs after one source's load() settled
CollectOrReset(allDocs, s, ok) == IF ok THEN allDocs \o SourceDocs(s) ELSE <<>>

Collect(allDocs, s, ok) == IF ok THEN allDocs \o SourceDocs(s) ELSE allDocs

\* manager.ts:71-80, this.documents while the loop over the sources runs
CorpusDuringLoadPartial(docs, allDocs) == allDocs

CorpusDuringLoad(docs, allDocs) == docs

\* manager.ts:64-76, loadDocuments() up to its first await (or to its end
\* when it never awaits), from adapter list srcs, store st and corpus docs
LoadDocumentsBegin(srcs, st, docs, t, dttl) ==
    LET cachedDocs == CachedDocs(st, t)
        st1 == IF CachedDocs(st, t) = CacheGetData(st, t, AllDocuments)
               THEN CacheGetStore(st, t, AllDocuments) ELSE st
    IN  IF cachedDocs # Undefined
        THEN [documents |-> cachedDocs[1], store |-> st1, pc |-> "awaitLoad",
              fromCache |-> TRUE, allDocs |-> <<>>, idx |-> 0, invoked |-> <<>>]
        ELSE IF Len(srcs) = 0
        THEN [documents |-> <<>>,
              store |-> CacheSet(st1, t, AllDocuments, <<>>, Undefined, dttl),
              pc |-> "awaitLoad", fromCache |-> FALSE, allDocs |-> <<>>,
              idx |-> 0, invoked |-> <<>>]
        ELSE [documents |-> docs, store |-> st1, pc |-> "awaitSource",
              fromCache |-> FALSE, allDocs |-> <<>>, idx |-> 1,
              invoked |-> <<srcs[1]>>]

\* the calls that have returned
DoneCalls == {c \in DOMAIN calls : calls[c].pc = "done"}

\* the calls that are awaiting an adapter's load()
AwaitingSource == {c \in DOMAIN calls : calls[c].pc = "awaitSource"}

\* whether the cache holds an unexpired corpus
LiveCorpusEntry == AllDocuments \in DOMAIN store /\ now <= store[AllDocuments].expiresAt

\* the record of a call: where it stands (pc, idx, allDocs) and what it has
\* done so far: fromCache (line 66 was taken), invoked (the sources whose load()
\* it called, in order), results (how each settled), and the circumstances it
\* began in: preDone and awaiting (the calls that had returned, and those that
\* were awaiting a load()), registered (the length of the adapter list its
\* loadDocuments() started from), liveAtCall (an unexpired corpus was cached)
NewCall(kind, r, registered) ==
    [kind |-> kind, pc |-> r.pc, idx |-> r.idx, allDocs |-> r.allDocs,
     fromCache |-> r.fromCache, invoked |-> r.invoked, results |-> <<>>,
     noop |-> FALSE, preDone |-> DoneCalls, awaiting |-> AwaitingSource,
     registered |-> registered, liveAtCall |-> LiveCorpusEntry]

\* the calls that have not returned yet
Pending == {c \in DOMAIN calls : calls[c].pc # "done"}

\* a caller makes one more call, possibly before the earlier ones returned
CallerMayCall ==
    /\ Len(calls) < MaxCalls
    /\ Pending # {} => overlaps < MaxOverlaps
    /\ overlaps' = IF Pending # {} THEN overlaps + 1 ELSE overlaps

\* manager.ts:36-59, initialize() up to its first await
Initialize ==
    /\ CallerMayCall
    /\ IF initialized
       THEN /\ calls' = Append(calls,
                  [kind |-> "initialize", pc |-> "done", idx |-> 0, allDocs |-> <<>>,
                   fromCache |-> FALSE, invoked |-> <<>>, results |-> <<>>,
                   noop |-> TRUE, preDone |-> DoneCalls, awaiting |-> AwaitingSource,
                   registered |-> Len(sources), liveAtCall |-> LiveCorpusEntry])
            /\ UNCHANGED <<sources, documents, store>>
       ELSE LET srcs == sources \o config.sources
                r == LoadDocumentsBegin(srcs, store, documents, now, defaultTTL)
            IN  /\ sources' = srcs
                /\ documents' = r.documents
                /\ store' = r.store
                /\ calls' = Append(calls, NewCall("initialize", r, Len(srcs)))
    /\ UNCHANGED <<config, defaultTTL, initialized, now, clientVars, rejects>>
    /\ UNCHANGED adapterVars

\* manager.ts:89-92, refresh() up to its first await
Refresh ==
    /\ CallerMayCall
    /\ LET r == LoadDocumentsBegin(sources, CacheClear(store), documents, now, defaultTTL)
       IN  /\ documents' = r.documents
           /\ store' = r.store
           /\ calls' = Append(calls, NewCall("refresh", r, Len(sources)))
    /\ UNCHANGED <<config, defaultTTL, sources, initialized, now, clientVars,
                   rejects>>
    /\ UNCHANGED adapterVars

\* manager.ts:73-83, the load() awaited by call c settles (ok: it resolved,
\* ~ok: it rejected) and loadDocuments() runs on to its next await or its end
SourceSettles(c, ok) ==
    /\ calls[c].pc = "awaitSource"
    /\ ok \/ rejects < MaxRejects
    /\ rejects' = IF ok THEN rejects ELSE rejects + 1
    /\ overlaps' = overlaps
    /\ LET cur == calls[c]
           s == sources[cur.idx]
           all2 == Collect(cur.allDocs, s, ok)
           res2 == Append(cur.results, [src |-> s, ok |-> ok])
           next == cur.idx + 1
       IN  IF next <= Len(sources)
           THEN /\ calls' = [calls EXCEPT ![c] =
                      [cur EXCEPT !.allDocs = all2, !.idx = next, !.results = res2,
                                  !.invoked = Append(cur.invoked, sources[next])]]
                /\ documents' = CorpusDuringLoad(documents, all2)
                /\ store' = store
           ELSE /\ calls' = [calls EXCEPT ![c] =
                      [cur EXCEPT !.allDocs = all2, !.results = res2, !.pc = "awaitLoad"]]
                /\ documents' = all2
                /\ store' = CacheSet(store, now, AllDocuments, all2, Undefined, defaultTTL)
    /\ UNCHANGED <<config, defaultTTL, sources, initialized, now, clientVars>>
    /\ UNCHANGED adapterVars

\* manager.ts:57-58 and :91, the awaited loadDocuments() has returned
CompleteAlone(c) ==
    /\ calls[c].pc = "awaitLoad"
    /\ Pending = {c}
    /\ calls' = [calls EXCEPT ![c].pc = "done"]
    /\ initialized' = IF calls[c].kind = "initialize" THEN TRUE ELSE initialized
    /\ UNCHANGED <<config, store, defaultTTL, documents, sources, now, clientVars,
                   rejects, overlaps>>
    /\ UNCHANGED adapterVars

Complete(c) ==
    /\ calls[c].pc = "awaitLoad"
    /\ calls' = [calls EXCEPT ![c].pc = "done"]
    /\ initialized' = IF calls[c].kind = "initialize" THEN TRUE ELSE initialized
    /\ UNCHANGED <<config, store, defaultTTL, documents, sources, now, clientVars,
                   rejects, overlaps>>
    /\ UNCHANGED adapterVars

\* Date.now() moves on
Advance(d) ==
    /\ now + d <= MaxNow
    /\ now' = now + d
    /\ UNCHANGED <<config, store, defaultTTL, documents, sources, initialized, calls,
                   clientVars, rejects, overlaps>>
    /\ UNCHANGED adapterVars

\* manager.ts:22-31, a manager just constructed from a config with these
\* sources and this cacheTimeout; noKey is the argument of the request no
\* client has made yet (a string, written as the clients of the model write it)
ConstructedWith(srcs, ct, noKey) ==
    /\ config = [sources |-> srcs, cacheTimeout |-> ct]
    /\ defaultTTL = config.cacheTimeout * 1000
    /\ store = EmptyMap
    /\ documents = <<>>
    /\ sources = <<>>
    /\ initialized = FALSE
    /\ calls = <<>>
    /\ now = 0
    /\ op = [name |-> "none", key |-> noKey, at |-> 0]
    /\ ret = Undefined
    /\ written = EmptyMap
    /\ rejects = 0
    /\ overlaps = 0
    /\ edition = 1
    /\ remote = NoRemote
    /\ git = NoGit
    /\ local = NoLocal

Constructed(ct) == ConstructedWith(ConfigSources, ct, "")

Init == \E ct \in CacheTimeouts : Constructed(ct)

Next ==
    \/ Initialize
    \/ Refresh
    \/ \E c \in DOMAIN calls, ok \in BOOLEAN : SourceSettles(c, ok)
    \/ \E c \in DOMAIN calls : Complete(c)
    \/ \E d \in ManagerAdvances : Advance(d)

Spec == Init /\ [][Next]_vars

\* the event loop runs every continuation that is ready, and every load()
\* an adapter was asked for settles
ManagerFairness ==
    \A c \in 1..(MaxCalls + 1) :
        /\ WF_vars(c \in DOMAIN calls /\ \E ok \in BOOLEAN : SourceSettles(c, ok))
        /\ WF_vars(c \in DOMAIN calls /\ Complete(c))

FairSpec == Init /\ [][Next]_vars /\ ManagerFairness

\* unnamed/part_002:167-179, a manager whose config sets cacheTimeout to 0
DisabledCacheInit == Constructed(0)

DisabledCacheSpec == DisabledCacheInit /\ [][Next]_vars

(* ------------------------ the manager's queries ------------------------ *)
\* manager.ts:98, :113: a document without its content and frontmatter
Metadata(doc) == [f \in (DOMAIN doc) \ {"content", "frontmatter"} |-> doc[f]]

\* manager.ts:97-99
GetAllStandards(docs) == MapSeq(Metadata, docs)

\* manager.ts:104-106, Array.prototype.find: the first match or undefined
RECURSIVE GetStandardByIdLast(_, _)
GetStandardByIdLast(docs, id) ==
    IF docs = <<>> THEN Undefined
    ELSE IF docs[Len(docs)].id = id THEN Some(docs[Len(docs)])
    ELSE GetStandardByIdLast(SubSeq(docs, 1, Len(docs) - 1), id)

RECURSIVE GetStandardById(_, _)
GetStandardById(docs, id) ==
    IF docs = <<>> THEN Undefined
    ELSE IF Head(docs).id = id THEN Some(Head(docs))
    ELSE GetStandardById(Tail(docs), id)

\* manager.ts:111-115
GetStandardsByCategory(docs, category) ==
    LET InCategory(doc) == doc.category = category
    IN  MapSeq(Metadata, FilterSeq(InCategory, docs))

\* manager.ts:192-198, the categories in order of first appearance
RECURSIVE GetCategories(_)
GetCategories(docs) ==
    IF docs = <<>> THEN <<>>
    ELSE LET init == GetCategories(SubSeq(docs, 1, Len(docs) - 1))
             last == docs[Len(docs)].category
         IN  IF last \in Range(init) THEN init ELSE Append(init, last)

(* ----------------------------- the server ------------------------------ *)
\* server.ts:20-23, createServer() constructs the manager and initializes it
CreateServer ==
    /\ calls = <<>>
    /\ Initialize

\* server.ts:23-26, the request handlers exist once initialize() has returned
Serving == calls # <<>> /\ calls[1].pc = "done"

\* the content behind the sources is edited (a file is rewritten, a commit is
\* pushed, the API serves a new version)
SourcesEdited ==
    /\ edition < MaxEditions
    /\ edition' = edition + 1
    /\ UNCHANGED <<config, store, defaultTTL, documents, sources, initialized, calls,
                   now, clientVars, rejects, overlaps, remote, git, local>>

\* a request that reads the corpus through one of the manager's queries and
\* leaves the manager as it was
AnswerThroughCache(name, key, result) ==
    /\ op' = [name |-> name, key |-> key, at |-> now]
    /\ Serving
    /\ ret' = result
    /\ store' = CacheGetStore(store, now, AllDocuments)
    /\ UNCHANGED <<config, defaultTTL, documents, sources, initialized, calls,
                   now, written, rejects, overlaps, adapterVars>>

Answer(name, key, result) ==
    /\ op' = [name |-> name, key |-> key, at |-> now]
    /\ Serving
    /\ ret' = result
    /\ UNCHANGED <<config, store, defaultTTL, documents, sources, initialized, calls,
                   now, written, rejects, overlaps, adapterVars>>

\* server.ts:171-181 and manager.ts:97-99
QGetAllStandards == Answer("getAllStandards", "", GetAllStandards(documents))

\* server.ts:193 and manager.ts:104-106
QGetStandardById(id) == Answer("getStandardById", id, GetStandardById(documents, id))

\* manager.ts:111-115
QGetStandardsByCategory(category) ==
    Answer("getStandardsByCategory", category, GetStandardsByCategory(documents, category))

\* manager.ts:192-198, each category as [category |-> c]
QGetCategories ==
    Answer("getCategories", "",
           MapSeq(LAMBDA c : [category |-> c], GetCategories(documents)))

ServerQuery ==
    \/ QGetAllStandards
    \/ \E id \in QueryIds : QGetStandardById(id)
    \/ \E category \in QueryCategories : QGetStandardsByCategory(category)
    \/ QGetCategories

ServerNext ==
    \/ CreateServer
    \/ \E c \in DOMAIN calls, ok \in BOOLEAN : SourceSettles(c, ok)
    \/ \E c \in DOMAIN calls : Complete(c)
    \/ \E d \in ManagerAdvances : Advance(d)
    \/ SourcesEdited
    \/ ServerQuery

\* the event loop runs every continuation that is ready, the clock goes on,
\* and clients go on sending each kind of request
ServerFairness ==
    /\ WF_vars(CreateServer)
    /\ WF_vars(\E c \in DOMAIN calls, ok \in BOOLEAN : SourceSettles(c, ok))
    /\ WF_vars(\E c \in DOMAIN calls : Complete(c))
    /\ WF_vars(\E d \in ManagerAdvances : Advance(d))
    /\ WF_vars(QGetAllStandards)
    /\ \A id \in QueryIds : WF_vars(QGetStandardById(id))
    /\ \A category \in QueryCategories : WF_vars(QGetStandardsByCategory(category))
    /\ WF_vars(QGetCategories)

ServerSpec == Init /\ [][ServerNext]_vars /\ ServerFairness

(* ------------------------------- search -------------------------------- *)
\* manager.ts:134, :143, :153, :162, :170, the weights of the five fields
TitleWeight == 10
DescriptionWeight == 5
TagWeight == 7
CategoryWeight == 3
ContentWeight == 1

\* manager.ts:122-123, the words of a query
NonEmpty(str) == str # <<>>

QueryWords(query) == FilterSeq(NonEmpty, SplitSpaces(ToLowerCase(query)))

\* manager.ts:132-136 (and the four loops like it): how many of the words,
\* each occurrence counted, the lowercased text includes
RECURSIVE Hits(_, _)
Hits(text, words) ==
    IF words = <<>> THEN 0
    ELSE (IF Includes(ToLowerCase(text), Head(words)) THEN 1 ELSE 0)
         + Hits(text, Tail(words))

\* manager.ts:149-157, the loop over the tags
RECURSIVE TagHits(_, _)
TagHits(tags, words) ==
    IF tags = <<>> THEN 0 ELSE Hits(Head(tags), words) + TagHits(Tail(tags), words)

\* manager.ts:128-172, the relevance of one document
RelevanceTagsOnce(doc, words) ==
    TitleWeight * Hits(doc.title, words)
    + (IF doc.description # <<>> THEN DescriptionWeight * Hits(doc.description, words) ELSE 0)
    + TagWeight * (IF TagHits(doc.tags, words) > 0 THEN 1 ELSE 0)
    + CategoryWeight * Hits(doc.category, words)
    + ContentWeight * Hits(doc.content, words)

Relevance(doc, words) ==
    TitleWeight * Hits(doc.title, words)
    + (IF doc.description # <<>> THEN DescriptionWeight * Hits(doc.description, words) ELSE 0)
    + TagWeight * TagHits(doc.tags, words)
    + CategoryWeight * Hits(doc.category, words)
    + ContentWeight * Hits(doc.content, words)

\* manager.ts:175-181, the entry pushed for a document
SearchResult(doc, relevance) ==
    [id |-> doc.id, title |-> doc.title, description |-> doc.description,
     category |-> doc.category, relevance |-> relevance]

\* manager.ts:127-183, the loop over the corpus: the documents that score
RECURSIVE Scored(_, _)
Scored(docs, words) ==
    IF docs = <<>> THEN <<>>
    ELSE (IF Relevance(Head(docs), words) > 0
          THEN <<SearchResult(Head(docs), Relevance(Head(docs), words))>>
          ELSE <<>>) \o Scored(Tail(docs), words)

\* manager.ts:186, Array.prototype.sort with (a, b) => b.relevance - a.relevance:
\* a stable sort (Node.js 18), here by insertion from the left
RECURSIVE InsertBeforeEqual(_, _)
InsertBeforeEqual(sorted, r) ==
    IF sorted = <<>> THEN <<r>>
    ELSE IF Head(sorted).relevance > r.relevance
    THEN <<Head(sorted)>> \o InsertBeforeEqual(Tail(sorted), r)
    ELSE <<r>> \o sorted

RECURSIVE Insert(_, _)
Insert(sorted, r) ==
    IF sorted = <<>> THEN <<r>>
    ELSE IF Head(sorted).relevance >= r.relevance
    THEN <<Head(sorted)>> \o Insert(Tail(sorted), r)
    ELSE <<r>> \o sorted

RECURSIVE SortByRelevance(_)
SortByRelevance(results) ==
    IF results = <<>> THEN <<>>
    ELSE Insert(SortByRelevance(SubSeq(results, 1, Len(results) - 1)),
                results[Len(results)])

\* manager.ts:131 and :159 call toLowerCase() on doc.title and doc.category: a
\* TypeError when one of them is undefined
Unsearchable(docs) ==
    \E i \in DOMAIN docs : docs[i].absent \cap {"title", "category"} # {}

\* manager.ts:121-187
SearchStandards(docs, query) ==
    IF Unsearchable(docs) THEN Raised
    ELSE Returned(SortByRelevance(Scored(docs, QueryWords(query))))

(* -------------------------------- tools -------------------------------- *)
\* resolve-standard.ts:41 and get-docs.ts:25, the slices
MaxResults == 10
MaxSuggestions == 3

\* Array.prototype.slice(0, n)
SliceAll(seq, n) == seq

Slice(seq, n) == SubSeq(seq, 1, IF Len(seq) < n THEN Len(seq) ELSE n)

\* resolve-standard.ts:12-54; asked lists the manager's methods it called
ResolveStandard(docs, query) ==
    IF query = <<>> \/ Len(Trim(query)) = 0
    THEN [raised |-> FALSE, asked |-> <<>>,
          value |-> [message |-> [kind |-> "empty", count |-> 0, categories |-> <<>>],
                     results |-> <<>>, totalCount |-> 0]]
    ELSE LET found == SearchStandards(docs, Trim(query))
         IN  IF found.raised
             THEN [raised |-> TRUE, asked |-> <<"searchStandards">>, value |-> <<>>]
             ELSE IF Len(found.value) = 0
             THEN [raised |-> FALSE, asked |-> <<"searchStandards", "getCategories">>,
                   value |-> [message |-> [kind |-> "none", count |-> 0,
                                           categories |-> GetCategories(docs)],
                              results |-> <<>>, totalCount |-> 0]]
             ELSE [raised |-> FALSE, asked |-> <<"searchStandards">>,
                   value |-> [message |-> [kind |-> "found", count |-> Len(found.value),
                                           categories |-> <<>>],
                              results |-> Slice(found.value, MaxResults),
                              totalCount |-> Len(found.value)]]

\* get-docs.ts:26, one line of the suggestions
Suggestion(r) == [id |-> r.id, title |-> r.title]

\* get-docs.ts:12-52, called without topic and maxTokens
GetStandardDocs(docs, standardId) ==
    LET document == GetStandardById(docs, standardId)
    IN  IF document = Undefined
        THEN LET searchResults == SearchStandards(docs, standardId)
             IN  IF searchResults.raised THEN Raised
                 ELSE Returned([kind |-> "notFound", id |-> standardId,
                                suggestions |-> MapSeq(Suggestion,
                                    Slice(searchResults.value, MaxSuggestions))])
        ELSE Returned([kind |-> "document", id |-> document[1].id,
                       suggestions |-> <<>>])

\* server.ts:184-208, the handler of a read of standard://<standardId>
ReadResource(docs, standardId) ==
    LET document == GetStandardById(docs, standardId)
    IN  IF document = Undefined THEN Raised
        ELSE Returned([uri |-> standardId, text |-> document[1].content])

\* manager.ts:121, server.ts:110-121, :123-138 and :184-208: the requests
TSearchStandards(query) ==
    Answer("searchStandards", query, SearchStandards(documents, query))

TResolveStandard(query) ==
    Answer("resolveStandard", query, ResolveStandard(documents, query))

TGetStandardById(id) ==
    Answer("getStandardById", id, GetStandardById(documents, id))

TGetStandardDocs(id) ==
    Answer("getStandardDocs", id, GetStandardDocs(documents, id))

TReadResource(id) ==
    Answer("readResource", id, ReadResource(documents, id))

\* the queries and ids the clients send
Queries ==
    [vue |-> <<"v", "u", "e">>,
     nonexistent |-> <<"n", "o", "n", "e", "x", "i", "s", "t", "e", "n", "t">>,
     empty |-> <<>>,
     blank |-> <<" ", " ", " ">>,
     API |-> <<"A", "P", "I">>,
     vue_api |-> <<"v", "u", "e", " ", "a", "p", "i">>,
     vue_vue |-> <<"v", "u", "e", " ", "v", "u", "e">>,
     padded |-> <<" ", "V", "u", "e", " ", "\t", "3", " ">>,
     unknown_id |-> <<"n", "o", "n", "-", "e", "x", "i", "s", "t", "e", "n", "t">>,
     guide |-> <<"g", "u", "i", "d", "e">>]

ToolQueries ==
    {Queries.vue, Queries.nonexistent, Queries.empty, Queries.blank, Queries.API,
     Queries.vue_api, Queries.vue_vue, Queries.padded, Queries.guide}
ToolIds == {VueComponents.id, ApiRestful.id, Queries.unknown_id, Queries.vue, Queries.guide}

\* the source lists of the servers the tools are run against
ToolsInit ==
    \E srcs \in {<<>>, <<TestStandards>>, <<TestStandards, TeamStandards>>, <<Guides>>,
                    <<TeamStandards, Guides>>} :
        ConstructedWith(srcs, 1, <<>>)

ToolsNext ==
    \/ CreateServer
    \/ \E c \in DOMAIN calls, ok \in BOOLEAN : SourceSettles(c, ok)
    \/ \E c \in DOMAIN calls : Complete(c)
    \/ \E query \in ToolQueries : TSearchStandards(query)
    \/ \E query \in ToolQueries : TResolveStandard(query)
    \/ \E id \in ToolIds : TGetStandardById(id)
    \/ \E id \in ToolIds : TGetStandardDocs(id)
    \/ \E id \in ToolIds : TReadResource(id)

ToolsSpec == ToolsInit /\ [][ToolsNext]_vars

\* the ids looked up, and the source lists of the servers they are looked up on
LookupIds ==
    {VueComponents.id, ApiRecord.plain.id, Queries.unknown_id, Queries.vue,
     Queries.guide}

LookupInit ==
    \E srcs \in {<<>>, <<TestStandards>>, <<TeamApi>>, <<TestStandards, TeamApi>>, <<Guides>>,
                    <<TeamStandards, Guides>>} :
        ConstructedWith(srcs, 1, <<>>)

LookupNext ==
    \/ CreateServer
    \/ \E c \in DOMAIN calls, ok \in BOOLEAN : SourceSettles(c, ok)
    \/ \E c \in DOMAIN calls : Complete(c)
    \/ \E id \in LookupIds : TGetStandardById(id)
    \/ \E id \in LookupIds : TGetStandardDocs(id)
    \/ \E id \in LookupIds : TReadResource(id)

LookupSpec == LookupInit /\ [][LookupNext]_vars

(* ------------------- the five queries of the manager ------------------- *)
\* manager.ts:97-198, the five query methods called on a manager whose cache
\* entry expires while it serves
ReadOnlyQuery ==
    \/ Answer("getAllStandards", <<>>, Returned(GetAllStandards(documents)))
    \/ \E id \in ToolIds :
          Answer("getStandardById", id, Returned(GetStandardById(documents, id)))
    \/ \E category \in {VueComponents.category, ApiRestful.category, Queries.vue} :
          Answer("getStandardsByCategory", category,
                 Returned(GetStandardsByCategory(documents, category)))
    \/ \E query \in ToolQueries : TSearchStandards(query)
    \/ Answer("getCategories", <<>>, Returned(GetCategories(documents)))

QueryNext ==
    \/ CreateServer
    \/ \E c \in DOMAIN calls, ok \in BOOLEAN : SourceSettles(c, ok)
    \/ \E c \in DOMAIN calls : Complete(c)
    \/ \E d \in ManagerAdvances : Advance(d)
    \/ ReadOnlyQuery

QuerySpec == ToolsInit /\ [][QueryNext]_vars

(* ---------------------- RemoteSource.load() -------------------------- *)
\* what the API can answer: fetch rejects, a status outside 2xx, a body that
\* is not JSON, or an object with up to MaxRecords records
ApiResponses ==
    {[kind |-> k, field |-> "none", standards |-> <<>>] :
        k \in {"rejected", "status", "unparsable", "ok"}}
    \cup {[kind |-> "ok", field |-> f, standards |-> st] :
            f \in {"standards", "data"},
            st \in UNION {[1..n -> {ApiRecord[k] : k \in DOMAIN ApiRecord}] :
                            n \in 0..MaxRecords}}

\* resolve-standard.ts:110-135 and :202, load() of a source with no docs and
\* a URL that is not a Markdown file: the request is sent
RemoteLoad ==
    /\ remote.pc \in {"idle", "done"}
    /\ remote' = [pc |-> "fetching"]
    /\ UNCHANGED <<config, store, defaultTTL, documents, sources, initialized, calls,
                   now, op, ret, written, rejects, overlaps, edition, git, local>>

\* resolve-standard.ts:202-223, the request settles and load() resolves
RemoteResponds(response) ==
    /\ remote.pc = "fetching"
    /\ remote' = [pc |-> "done", response |-> response, result |-> LoadFromApi(response)]
    /\ UNCHANGED <<config, store, defaultTTL, documents, sources, initialized, calls,
                   now, op, ret, written, rejects, overlaps, edition, git, local>>

RemoteNext ==
    \/ RemoteLoad
    \/ \E response \in ApiResponses : RemoteResponds(response)

RemoteSpec == Init /\ [][RemoteNext]_vars

(* ------------------------------ GitSource ------------------------------ *)
\* git.ts:30, the path a GitSource is constructed with
GitPath == <<"d", "o", "c", "s">>

\* git.ts:138-141
IsMarkdownFile(filePath) ==
    LET lowerPath == ToLowerCase(filePath)
    IN  \/ EndsWith(lowerPath, <<".", "m", "d">>)
        \/ EndsWith(lowerPath, <<".", "m", "a", "r", "k", "d", "o", "w", "n">>)

\* git.ts:130-133
IsInPath(filePath) == IF GitPath = <<>> THEN TRUE ELSE StartsWith(filePath, GitPath)

\* git.ts:100-103
RelativePath(filePath) ==
    IF GitPath # <<>> /\ StartsWith(filePath, GitPath)
    THEN LET cut == From(filePath, Len(GitPath) + 1)
         IN  IF StartsWith(cut, <<"/">>) THEN Tail(cut) ELSE cut
    ELSE filePath

\* git.ts:57-62, the items of a tree whose blobs load() asks for
Requested(tree) ==
    {i \in DOMAIN tree :
        /\ tree[i].type = "blob"
        /\ IsMarkdownFile(tree[i].path)
        /\ IsInPath(tree[i].path)}

\* the base64 alphabet, and the characters of the codes 32 to 126 (the one
\* of code 96 is written by its code point)
Base64Alphabet ==
    <<"A", "B", "C", "D", "E", "F", "G", "H", "I", "J", "K", "L", "M", "N", "O", "P",
      "Q", "R", "S", "T", "U", "V", "W", "X", "Y", "Z", "a", "b", "c", "d", "e", "f",
      "g", "h", "i", "j", "k", "l", "m", "n", "o", "p", "q", "r", "s", "t", "u", "v",
      "w", "x", "y", "z", "0", "1", "2", "3", "4", "5", "6", "7", "8", "9", "+", "/">>

Printable ==
    <<" ", "!", "\"", "#", "$", "%", "&", "'", "(", ")", "*", "+", ",", "-", ".", "/",
      "0", "1", "2", "3", "4", "5", "6", "7", "8", "9", ":", ";", "<", "=", ">", "?",
      "@", "A", "B", "C", "D", "E", "F", "G", "H", "I", "J", "K", "L", "M", "N", "O",
      "P", "Q", "R", "S", "T", "U", "V", "W", "X", "Y", "Z", "[", "\\", "]", "^", "_",
      "u0060", "a", "b", "c", "d", "e", "f", "g", "h", "i", "j", "k", "l", "m", "n", "o",
      "p", "q", "r", "s", "t", "u", "v", "w", "x", "y", "z", "{", "|", "}", "~">>

\* git.ts:18-21, blobs as the API sends them: a heading and a line of text;
\* a front matter block that sets the id, and a line of text; a space and two
\* line ends; a front matter block that opens a list and does not close it;
\* and a heading sent with another encoding
Blob ==
    [plain |->
        [encoding |-> "base64",
         content |->
            <<"I", "y", "B", "B", "C", "g", "p", "y", "d", "W", "x", "l", "c", "w", "o",
              "=", "\n">>],
     matter |->
        [encoding |-> "base64",
         content |->
            <<"L", "S", "0", "t", "C", "m", "l", "k", "O", "i", "B", "0", "Z", "W", "F",
              "t", "L", "W", "V", "y", "\n", "c", "m", "9", "y", "c", "w", "o", "t", "L",
              "S", "0", "K", "C", "m", "N", "v", "Z", "G", "V", "z", "C", "g", "=", "=",
              "\n">>],
     blank |->
        [encoding |-> "base64",
         content |->
            <<"I", "A", "o", "K", "\n">>],
     broken |->
        [encoding |-> "base64",
         content |->
            <<"L", "S", "0", "t", "C", "n", "R", "h", "Z", "3", "M", "6", "I", "F", "t",
              "h", "L", "A", "o", "t", "\n", "L", "S", "0", "K", "d", "G", "V", "4", "d",
              "A", "o", "=", "\n">>],
     raw |->
        [encoding |-> "utf-8",
         content |-> <<"#", " ", "R", "a", "w", "\n">>]]

\* git.ts:92, Buffer.from(content, 'base64'): eight bits to a byte from the
\* six bits of each character
RECURSIVE Octets(_)
Octets(six) ==
    IF Len(six) < 2 THEN <<>>
    ELSE LET first == six[1] * 4 + six[2] \div 16
         IN  IF Len(six) = 2 THEN <<first>>
             ELSE LET second == (six[2] % 16) * 16 + six[3] \div 4
                  IN  IF Len(six) = 3 THEN <<first, second>>
                      ELSE <<first, second, (six[3] % 4) * 64 + six[4]>>
                           \o Octets(SubSeq(six, 5, Len(six)))

\* git.ts:92, Buffer.from(content, 'base64').toString('utf-8'): the characters
\* before the first '=' that belong to the alphabet are decoded; a byte below
\* 128 is its character, any other is shown as the replacement character
Base64Decode(str) ==
    LET Base64Value(c) ==
            (CHOOSE i \in DOMAIN Base64Alphabet : Base64Alphabet[i] = c) - 1
        stop == IndexOf(str, <<"=">>)
        kept == IF stop = 0 THEN str ELSE SubSeq(str, 1, stop - 1)
        six == MapSeq(Base64Value,
                      FilterSeq(LAMBDA c : c \in Range(Base64Alphabet), kept))
        Utf8Char(byte) ==
            IF byte = 10 THEN "\n"
            ELSE IF byte = 9 THEN "\t"
            ELSE IF byte \in 32..126 THEN Printable[byte - 31]
            ELSE "ufffd"
    IN  MapSeq(Utf8Char, Octets(six))

\* git.ts:90-93
BlobContent(answer) ==
    IF answer.encoding = "base64" THEN Base64Decode(answer.content) ELSE answer.content

\* a loadFile() without its handler: what is thrown inside it leaves it
LoadFileUnguarded(file, answer) ==
    IF answer.kind \in {"rejected", "unparsable"} THEN Raised
    ELSE IF answer.kind = "status" THEN Returned(Undefined)
    ELSE IF ~IsValidMarkdown(BlobContent(answer)) THEN Returned(Undefined)
    ELSE LET doc == ParseMarkdown(BlobContent(answer), RelativePath(file.path), "git")
         IN  IF doc.raised THEN Raised ELSE Returned(Some(doc.value))

\* git.ts:79-110, loadFile on the answer to the request for the blob: fetch
\* rejected, a status outside 2xx, a body that is not JSON, or a blob; null is
\* Undefined
LoadFile(file, answer) ==
    IF answer.kind \in {"rejected", "unparsable"} THEN Returned(Undefined)
    ELSE IF answer.kind = "status" THEN Returned(Undefined)
    ELSE IF ~IsValidMarkdown(BlobContent(answer)) THEN Returned(Undefined)
    ELSE LET doc == ParseMarkdown(BlobContent(answer), RelativePath(file.path), "git")
         IN  IF doc.raised THEN Returned(Undefined) ELSE Returned(Some(doc.value))

\* git.ts:12-16, the items of the repository: a directory, up to MaxFiles
\* Markdown files in it, a file that is not Markdown, a Markdown file of
\* another directory, and one of a directory whose name begins like GitPath
TreeItem(path, type) == [path |-> path, type |-> type, url |-> path]

Tree(k) ==
    LET DocsFile(i) ==
            TreeItem(GitPath \o <<"/", "f">> \o Decimal(i)
                        \o (IF i % 2 = 0 THEN <<".", "M", "D">> ELSE <<".", "m", "d">>),
                     "blob")
    IN  <<TreeItem(GitPath, "tree"),
          TreeItem(GitPath \o <<"/", "n", "o", "t", "e", "s", ".", "t", "x", "t">>, "blob")>>
        \o [i \in 1..k |-> DocsFile(i)]
        \o <<TreeItem(<<"s", "r", "c", "/", "a", ".", "m", "d">>, "blob"),
             TreeItem(GitPath \o <<"-", "o", "l", "d", "/", "x", ".", "m", "a", "r", "k",
                                   "d", "o", "w", "n">>, "blob")>>

\* what the repository answers to the request for the tree, and for a blob
TreeAnswers ==
    {[kind |-> k, tree |-> <<>>] : k \in {"rejected", "status", "unparsable", "notree"}}
    \cup {[kind |-> "ok", tree |-> Tree(k)] : k \in 0..MaxFiles}

BlobAnswers ==
    {[kind |-> k, encoding |-> "none", content |-> <<>>] :
        k \in {"rejected", "status", "unparsable"}}
    \cup {[kind |-> "ok", encoding |-> b.encoding, content |-> b.content] :
            b \in {Blob[k] : k \in DOMAIN Blob}}

(* ------------------------- GitSource.load() ---------------------------- *)
GitUnchanged ==
    UNCHANGED <<config, store, defaultTTL, documents, sources, initialized, calls,
                now, op, ret, written, rejects, overlaps, edition, remote, local>>

\* git.ts:44-48, load(): the request for the tree is sent
GitLoad ==
    /\ git.pc \in {"idle", "done"}
    /\ git' = [pc |-> "tree"]
    /\ GitUnchanged

\* git.ts:48-72, the request for the tree settles: any failure is caught and
\* load() resolves to []; otherwise loadFile() is called for every requested
\* item, which sends the requests for the blobs
GitTreeResponds(answer) ==
    /\ git.pc = "tree"
    /\ git' = IF answer.kind # "ok"
              THEN [pc |-> "done", listing |-> answer, answers |-> <<>>, loaded |-> <<>>,
                    inverted |-> FALSE, raised |-> FALSE, result |-> <<>>]
              ELSE [pc |-> "blobs", listing |-> answer,
                    markdownFiles |-> Requested(answer.tree),
                    answers |-> [i \in DOMAIN answer.tree |-> Undefined],
                    loaded |-> [i \in DOMAIN answer.tree |-> Undefined],
                    inverted |-> FALSE]
    /\ GitUnchanged

\* git.ts:81-109, the request for one blob settles and its loadFile() returns;
\* inverted tells whether some loadFile() returned before one called earlier
GitBlobSettles(i, answer) ==
    /\ git.pc = "blobs"
    /\ i \in git.markdownFiles
    /\ git.answers[i] = Undefined
    /\ git' = [git EXCEPT !.answers[i] = Some(answer),
                          !.loaded[i] = Some(LoadFile(git.listing.tree[i], answer)),
                          !.inverted = \/ git.inverted
                                       \/ \E j \in git.markdownFiles :
                                             j < i /\ git.answers[j] = Undefined]
    /\ GitUnchanged

\* the documents of the settled loadFile() calls, in the order of the tree
RECURSIVE LoadedFromLast(_, _)
LoadedFromLast(loaded, i) ==
    IF i > Len(loaded) THEN <<>>
    ELSE LoadedFromLast(loaded, i + 1)
         \o (IF loaded[i] = Undefined THEN <<>> ELSE loaded[i][1].value)

RECURSIVE LoadedFrom(_, _)
LoadedFrom(loaded, i) ==
    IF i > Len(loaded) THEN <<>>
    ELSE (IF loaded[i] = Undefined THEN <<>> ELSE loaded[i][1].value)
         \o LoadedFrom(loaded, i + 1)

\* git.ts:65-72, Promise.all settles: with the results of all loadFile()
\* calls, of which the nulls are dropped, or with the first rejection, which
\* the handler of load() turns into []
GitResolves ==
    /\ git.pc = "blobs"
    /\ LET rejected == \E i \in git.markdownFiles :
                          git.loaded[i] # Undefined /\ git.loaded[i][1].raised
           settled == \A i \in git.markdownFiles : git.loaded[i] # Undefined
       IN  /\ rejected \/ settled
           /\ git' = [pc |-> "done", listing |-> git.listing, answers |-> git.answers,
                      loaded |-> git.loaded, inverted |-> git.inverted, raised |-> FALSE,
                      result |-> IF rejected THEN <<>> ELSE LoadedFrom(git.loaded, 1)]
    /\ GitUnchanged

GitNext ==
    \/ GitLoad
    \/ \E answer \in TreeAnswers : GitTreeResponds(answer)
    \/ \E i \in 1..(MaxFiles + 4), answer \in BlobAnswers : GitBlobSettles(i, answer)
    \/ GitResolves

GitSpec == Init /\ [][GitNext]_vars

(* --------------------------- LocalSource.loadFile ---------------------- *)
\* git.ts:217-227, loadFile once the file is read: null (Undefined) for
\* content that is not valid Markdown and when parseMarkdown throws, the
\* parsed document otherwise; relativePath is the path below basePath
LocalLoadFile(content, relativePath) ==
    IF ~IsValidMarkdown(content) THEN Undefined
    ELSE LET doc == ParseMarkdown(content, relativePath, "local")
         IN  IF doc.raised THEN Undefined ELSE Some(doc.value)

\* files as they lie on disk: a heading and a paragraph; a front matter block
\* with id, category and subcategory; one with a title only and text after
\* it; one with nothing after it; a heading between blank lines; white space;
\* a front matter block that opens a list and does not close it; no bytes
RawContent ==
    [plain |->
        <<"#", " ", "N", "a", "m", "i", "n", "g", "\n", "\n", "r", "u", "l", "e", "s",
          "\n">>,
     matter |->
        <<"-", "-", "-", "\n", "i", "d", ":", " ", "T", "e", "a", "m", "-", "E", "r",
          "r", "o", "r", "s", "\n", "c", "a", "t", "e", "g", "o", "r", "y",
          ":", " ", "o", "p", "s", "\n", "s", "u", "b", "c", "a", "t", "e",
          "g", "o", "r", "y", ":", " ", "a", "l", "e", "r", "t", "s", "\n",
          "-", "-", "-", "\n", "\n", "c", "o", "d", "e", "s", "\n">>,
     titled |->
        <<"-", "-", "-", "\n", "t", "i", "t", "l", "e", ":", " ", "E", "r", "r", "o",
          "r", "s", "\n", "-", "-", "-", "\n", "c", "o", "d", "e", "s">>,
     matterOnly |->
        <<"-", "-", "-", "\n", "t", "i", "t", "l", "e", ":", " ", "E", "r", "r", "o",
          "r", "s", "\n", "-", "-", "-", "\n">>,
     padded |->
        <<" ", " ", "\n", "#", " ", "N", "a", "m", "i", "n", "g", "\n", " ", " ">>,
     blank |->
        <<" ", "\n", "\t">>,
     broken |->
        <<"-", "-", "-", "\n", "t", "a", "g", "s", ":", " ", "[", "a", ",", "\n", "-",
          "-", "-", "\n", "t", "e", "x", "t">>,
     empty |->
        <<>>]

\* the paths below basePath they lie at
FilePaths ==
    {<<"f", "r", "o", "n", "t", "e", "n", "d", "/", "v", "u", "e", "/", "c", "o", "m",
       "p", "o", "n", "e", "n", "t", "s", ".", "m", "d">>,
     <<".", "/", "s", "t", "a", "n", "d", "a", "r", "d", "s", "/", "f", "r", "o", "n",
       "t", "e", "n", "d", "/", "v", "u", "e", "/", "c", "o", "m", "p", "o", "n",
       "e", "n", "t", "s", ".", "m", "d">>,
     <<"s", "t", "a", "n", "d", "a", "r", "d", "s", "/", "b", "a", "c", "k", "e", "n",
       "d", "/", "a", "p", "i", ".", "m", "d">>,
     <<"R", "E", "A", "D", "M", "E", ".", "m", "d">>,
     <<"s", "t", "a", "n", "d", "a", "r", "d", "s", "/", "R", "E", "A", "D", "M", "E",
       ".", "m", "d">>,
     <<".", "/", "g", "u", "i", "d", "e", ".", "m", "d">>,
     <<"b", "a", "c", "k", "e", "n", "d", "/", "a", "p", "i", ".", "m", "a", "r", "k",
       "d", "o", "w", "n">>,
     <<"n", "o", "t", "e", "s", ".", "m", "a", "r", "k", "d", "o", "w", "n">>,
     <<"F", "r", "o", "n", "t", "e", "n", "d", "\\", "V", "u", "e", "\\", "T", "a",
       "b", "l", "e", ".", "M", "D">>,
     <<"a", "/", "b", "/", "c", "/", "d", ".", "m", "d">>,
     <<"s", "t", "a", "n", "d", "a", "r", "d", "s">>,
     <<"t", "e", "a", "m", "/", "s", "t", "a", "n", "d", "a", "r", "d", "s", "/", "x",
       ".", "m", "d">>,
     <<"c", "u", "s", "t", "o", "m", "/", "S", "t", "y", "l", "e", " ", "G", "u", "i",
       "d", "e", ".", "M", "d">>}

\* one file, not read yet
ParserInit ==
    \E content \in {RawContent[k] : k \in DOMAIN RawContent}, filePath \in FilePaths :
        ConstructedWith(<<>>, 1, [content |-> content, filePath |-> filePath])

\* git.ts:213-229, loadFile() runs on the file
ParseFile ==
    /\ op.name = "none"
    /\ op' = [op EXCEPT !.name = "loadFile"]
    /\ ret' = LocalLoadFile(op.key.content, op.key.filePath)
    /\ UNCHANGED <<config, store, defaultTTL, documents, sources, initialized, calls,
                   now, written, rejects, overlaps, adapterVars>>

ParserSpec == ParserInit /\ [][ParseFile]_vars

(* ------------------------------ LocalSource ---------------------------- *)
\* git.ts:159-161, the basePath a LocalSource is constructed with
BasePath == <<"/", "s", "r", "v", "/", "d", "o", "c", "s">>

\* the i-th entry of a directory, by what it is: a Markdown file that reads;
\* one whose readFile() rejects; a file that is not Markdown; an entry whose
\* stat() rejects; a hidden directory and node_modules, each holding a
\* Markdown file; a directory that holds a Markdown file; one whose first
\* entry cannot be stat'ed and whose second is a Markdown file; and one
\* whose readdir() rejects
RECURSIVE DiskEntry(_, _)
DiskEntry(kind, i) ==
    LET File(name, read) ==
            [name |-> name, stat |-> "file", read |-> read, readdir |-> "none",
             content |-> RawContent.plain, entries |-> <<>>]
        Directory(name, readdir, entries) ==
            [name |-> name, stat |-> "dir", read |-> "none", readdir |-> readdir,
             content |-> <<>>, entries |-> entries]
    IN  CASE kind = "md" -> File(<<"f">> \o Decimal(i) \o <<".", "m", "d">>, "ok")
          [] kind = "unreadable" -> File(<<"u">> \o Decimal(i) \o <<".", "M", "D">>, "fails")
          [] kind = "text" -> File(<<"t">> \o Decimal(i) \o <<".", "t", "x", "t">>, "ok")
          [] kind = "nostat" ->
                [name |-> <<"x">> \o Decimal(i) \o <<".", "m", "d">>, stat |-> "fails",
                 read |-> "none", readdir |-> "none", content |-> <<>>, entries |-> <<>>]
          [] kind = "hidden" ->
                Directory(<<".", "g">> \o Decimal(i), "ok", <<DiskEntry("md", 1)>>)
          [] kind = "modules" ->
                Directory(<<"n", "o", "d", "e", "_", "m", "o", "d", "u", "l", "e", "s">>, "ok",
                          <<DiskEntry("md", 1)>>)
          [] kind = "sub" ->
                Directory(<<"s">> \o Decimal(i), "ok", <<DiskEntry("md", 1)>>)
          [] kind = "subnostat" ->
                Directory(<<"d">> \o Decimal(i), "ok",
                          <<DiskEntry("nostat", 1), DiskEntry("md", 2)>>)
          [] OTHER -> Directory(<<"r">> \o Decimal(i), "fails", <<>>)

\* the disks load() is run on: basePath missing, or a directory of up to
\* MaxEntries entries, node_modules at most once
Disks ==
    LET Kinds == {"md", "unreadable", "text", "nostat", "hidden", "modules", "sub",
                  "subnostat", "noreaddir"}
        Listings == UNION {[1..n -> Kinds] : n \in 0..MaxEntries}
    IN  {[exists |-> FALSE, entries |-> <<>>]}
        \cup {[exists |-> TRUE, entries |-> [i \in DOMAIN l |-> DiskEntry(l[i], i)]] :
                l \in {m \in Listings :
                          Cardinality({i \in DOMAIN m : m[i] = "modules"}) <= 1}}

\* git.ts:181-208 with :213-237, scanDirectory(dirPath, documents) from the
\* entries readdir() resolved to: the loop runs inside one try block, so a
\* stat() that rejects ends it (:190, :205); a directory is scanned in turn
\* unless it is hidden or node_modules, and its own scan catches what is
\* thrown in it; a Markdown file is loaded under its path below basePath and
\* pushed unless loadFile() gave null
RECURSIVE Scan(_, _, _)
Scan(entries, dirPath, docs) ==
    IF entries = <<>> THEN docs
    ELSE LET entry == Head(entries)
             fullPath == dirPath \o <<"/">> \o entry.name
             ext == ToLowerCase(entry.name)
             isMarkdownFile ==
                \/ EndsWith(ext, <<".", "m", "d">>) /\ Len(ext) > 3
                \/ EndsWith(ext, <<".", "m", "a", "r", "k", "d", "o", "w", "n">>) /\ Len(ext) > 9
             at == IndexOf(fullPath, BasePath)
             cut == IF at = 0 THEN fullPath
                    ELSE SubSeq(fullPath, 1, at - 1) \o From(fullPath, at + Len(BasePath))
             relativePath == IF StartsWith(cut, <<"/">>) THEN Tail(cut) ELSE cut
             doc == IF entry.read = "fails" THEN Undefined
                    ELSE LocalLoadFile(entry.content, relativePath)
         IN  IF entry.stat = "fails" THEN docs
             ELSE IF entry.stat = "dir"
             THEN IF \/ StartsWith(entry.name, <<".">>)
                     \/ entry.name = <<"n", "o", "d", "e", "_", "m", "o", "d", "u", "l", "e", "s">>
                  THEN Scan(Tail(entries), dirPath, docs)
                  ELSE Scan(Tail(entries), dirPath,
                            IF entry.readdir = "fails" THEN docs
                            ELSE Scan(entry.entries, fullPath, docs))
             ELSE IF entry.stat = "file" /\ isMarkdownFile
             THEN Scan(Tail(entries), dirPath,
                       IF doc = Undefined THEN docs ELSE Append(docs, doc[1]))
             ELSE Scan(Tail(entries), dirPath, docs)

LocalUnchanged ==
    UNCHANGED <<config, store, defaultTTL, documents, sources, initialized, calls,
                now, op, ret, written, rejects, overlaps, edition, remote, git>>

\* git.ts:166-174, load(): a missing basePath gives [] at once, otherwise
\* scanDirectory(basePath) is awaited
LocalLoad(disk) ==
    /\ local.pc \in {"idle", "done"}
    /\ local' = IF disk.exists
                THEN [pc |-> "scanning", disk |-> disk, raised |-> FALSE, result |-> <<>>]
                ELSE [pc |-> "done", disk |-> disk, raised |-> FALSE, result |-> <<>>]
    /\ LocalUnchanged

\* git.ts:174-175, scanDirectory(basePath) has returned and load() resolves
LocalScanned ==
    /\ local.pc = "scanning"
    /\ local' = [local EXCEPT !.pc = "done",
                              !.result = Scan(local.disk.entries, BasePath, <<>>)]
    /\ LocalUnchanged

LocalNext ==
    \/ \E disk \in Disks : LocalLoad(disk)
    \/ LocalScanned

LocalSpec == Init /\ [][LocalNext]_vars

(* ------------------- a Cache<string> used directly --------------------- *)
\* cache.ts:24-33, set(key, value, ttl?)
CSet(key, value, ttl) ==
    /\ op' = [name |-> "set", key |-> key, at |-> now]
    /\ store' = CacheSet(store, now, key, value, ttl, defaultTTL)
    /\ written' = [k \in (DOMAIN written) \cup {key} |->
                      IF k = key THEN [value |-> value, at |-> now, ttl |-> ttl]
                      ELSE written[k]]
    /\ ret' = Undefined
    /\ UNCHANGED <<defaultTTL, now, managerVars>>
    /\ UNCHANGED adapterVars

\* cache.ts:40-54, get(key)
CGet(key) ==
    /\ op' = [name |-> "get", key |-> key, at |-> now]
    /\ ret' = CacheGetData(store, now, key)
    /\ store' = CacheGetStore(store, now, key)
    /\ UNCHANGED <<defaultTTL, now, written, managerVars>>
    /\ UNCHANGED adapterVars

\* cache.ts:59-61, has(key)
CHas(key) ==
    /\ op' = [name |-> "has", key |-> key, at |-> now]
    /\ ret' = Some(CacheHas(store, now, key))
    /\ store' = CacheGetStore(store, now, key)
    /\ UNCHANGED <<defaultTTL, now, written, managerVars>>
    /\ UNCHANGED adapterVars

\* cache.ts:66-68, delete(key)
CDelete(key) ==
    /\ op' = [name |-> "delete", key |-> key, at |-> now]
    /\ ret' = Some(key \in DOMAIN store)
    /\ store' = MapDelete(store, key)
    /\ written' = MapDelete(written, key)
    /\ UNCHANGED <<defaultTTL, now, managerVars>>
    /\ UNCHANGED adapterVars

\* cache.ts:73-75, clear()
CClear ==
    /\ op' = [name |-> "clear", key |-> "", at |-> now]
    /\ store' = CacheClear(store)
    /\ written' = EmptyMap
    /\ ret' = Undefined
    /\ UNCHANGED <<defaultTTL, now, managerVars>>
    /\ UNCHANGED adapterVars

\* cache.ts:80-87, cleanup()
CCleanup ==
    /\ op' = [name |-> "cleanup", key |-> "", at |-> now]
    /\ store' = CacheCleanup(store, now)
    /\ ret' = Undefined
    /\ UNCHANGED <<defaultTTL, now, written, managerVars>>
    /\ UNCHANGED adapterVars

\* cache.ts:92-94, size()
CSize ==
    /\ op' = [name |-> "size", key |-> "", at |-> now]
    /\ ret' = Some(CacheSize(store))
    /\ UNCHANGED <<store, defaultTTL, now, written, managerVars>>
    /\ UNCHANGED adapterVars

\* cache.ts:14-16, a cache just constructed (no manager takes part)
CacheInit ==
    /\ defaultTTL \in DefaultTTLs
    /\ store = EmptyMap
    /\ now = 0
    /\ op = [name |-> "none", key |-> "", at |-> 0]
    /\ ret = Undefined
    /\ written = EmptyMap
    /\ config = [sources |-> ConfigSources, cacheTimeout |-> 0]
    /\ documents = <<>>
    /\ sources = <<>>
    /\ initialized = FALSE
    /\ calls = <<>>
    /\ rejects = 0
    /\ overlaps = 0
    /\ edition = 1
    /\ remote = NoRemote
    /\ git = NoGit
    /\ local = NoLocal

CacheNext ==
    \/ \E key \in Keys, value \in Values, ttl \in TTLArgs : CSet(key, value, ttl)
    \/ \E key \in Keys : CGet(key)
    \/ \E key \in Keys : CHas(key)
    \/ \E key \in Keys : CDelete(key)
    \/ CClear
    \/ CCleanup
    \/ CSize
    \/ \E d \in Advances : Advance(d)

CacheSpec == CacheInit /\ [][CacheNext]_vars

(* ======================= claims: the manager =========================== *)
InitializeCalls == {c \in DOMAIN calls : calls[c].kind = "initialize"}
RefreshCalls == {c \in DOMAIN calls : calls[c].kind = "refresh"}

\* the calls whose loadDocuments() ran the adapters and has published its result
FinishedLoads ==
    {c \in DOMAIN calls : /\ calls[c].pc \in {"awaitLoad", "done"}
                          /\ ~calls[c].fromCache
                          /\ ~calls[c].noop}

\* the corpus the load of call c published (manager.ts:82 assigns allDocs)
Published(c) == calls[c].allDocs

\* how many times call c called load() on the adapter of configured source s
Loads(c, s) == Cardinality({i \in DOMAIN calls[c].invoked : calls[c].invoked[i] = s})

\* the step in which the load of call c publishes its result
PublishStep(c) ==
    /\ c \in DOMAIN calls
    /\ calls[c].pc = "awaitSource"
    /\ calls'[c].pc = "awaitLoad"

\* the step in which a call is made
CallStep == Len(calls') = Len(calls) + 1

\* the documents of the sources in S, in declared source order
RECURSIVE ConcatSources(_, _)
ConcatSources(S, n) ==
    IF n = 0 THEN <<>>
    ELSE ConcatSources(S, n - 1) \o (IF n \in S THEN SourceDocs(n) ELSE <<>>)

\* the corpora one initialize() on a new manager can leave
SingleInitializeResults == {ConcatSources(S, NumSources) : S \in SUBSET (1..NumSources)}

\* C1 (as claimed): of two sequential initialize() calls with no refresh() in
\* between, the second is a no-op and the two together call each configured
\* source's load() exactly once.
C1_SequentialInitializesLoadOnce ==
    \A c1, c2 \in InitializeCalls :
        ( /\ c1 < c2
          /\ c1 \in calls[c2].preDone
          /\ calls[c2].pc = "done"
          /\ \A k \in RefreshCalls : ~(c1 < k /\ k < c2) )
        => /\ calls[c2].noop
           /\ \A s \in 1..NumSources : Loads(c1, s) + Loads(c2, s) = 1

\* C1, the part of it the code keeps: once an initialize() has returned, a
\* later initialize() calls no load() and changes neither the adapter list,
\* the corpus nor the cache.
C1_InitializeNoOpOnceReady ==
    [][(CallStep /\ initialized /\ calls'[Len(calls')].kind = "initialize")
        => /\ calls'[Len(calls')].invoked = <<>>
           /\ calls'[Len(calls')].pc = "done"
           /\ UNCHANGED <<sources, documents, store, initialized>>]_vars

\* C2 (as claimed): after two overlapping initialize() calls have both
\* returned, the corpus is one a single initialize() leaves: each configured
\* source at most once, in declared order.
C2_OverlapLeavesSingleLoadCorpus ==
    ( /\ Len(calls) = 2
      /\ DoneCalls = {1, 2}
      /\ InitializeCalls = {1, 2}
      /\ 1 \in calls[2].awaiting )
    => documents \in SingleInitializeResults

\* C3: in every state the corpus is the initial empty one or the complete
\* result of a load that has finished; it never holds a part of the
\* documents of a load still in progress.
C3_CorpusIsCompleteLoad ==
    documents \in {<<>>} \cup {Published(c) : c \in FinishedLoads}

\* C3 witness: a load is half way (it holds documents of its own) while the
\* corpus is another, complete, result
C3_Witness ==
    \E c \in DOMAIN calls :
        /\ calls[c].pc = "awaitSource"
        /\ calls[c].allDocs # <<>>
        /\ documents # <<>>
        /\ documents # calls[c].allDocs

\* C4: a source whose load() rejects does not abort the load and costs no
\* other source its documents: the load goes on through every adapter, and
\* the corpus it publishes holds every document of every source that resolved.
C4_FailureIsolated ==
    [][\A c \in DOMAIN calls : PublishStep(c) =>
          /\ Len(calls'[c].results) >= calls[c].registered
          /\ \A k \in DOMAIN calls'[c].results :
                calls'[c].results[k].ok =>
                    \A d \in Range(SourceDocs(calls'[c].results[k].src)) :
                        d \in Range(documents')]_vars

\* C4 witness: a load in which one source rejected and another resolved has
\* published its corpus
C4_Witness ==
    \E c \in FinishedLoads :
        /\ \E k \in DOMAIN calls[c].results : ~calls[c].results[k].ok
        /\ \E k \in DOMAIN calls[c].results : calls[c].results[k].ok
        /\ documents = Published(c)
        /\ documents # <<>>

\* documents in declared source order, and within a source in discovery order
InDeclaredOrder(docs) ==
    \A i, j \in DOMAIN docs :
        i < j => \/ docs[i].src < docs[j].src
                 \/ docs[i].src = docs[j].src /\ docs[i].n < docs[j].n

\* C5 (as claimed): the corpus a load publishes is the concatenation of the
\* configured sources' results in declared order: no document of a later
\* source precedes one of an earlier source.
C5_PublishedInDeclaredOrder ==
    \A c \in FinishedLoads : InDeclaredOrder(Published(c))

\* C6: loadDocuments() adopts a live 'all-documents' entry and calls no
\* load(); without a live entry it runs the adapters, and what it publishes
\* is cached under 'all-documents' for cacheTimeout seconds.
C6_CacheConsultedFirst ==
    [][ /\ ( /\ CallStep
             /\ calls'[Len(calls')].kind = "initialize"
             /\ ~initialized )
           => IF LiveCorpusEntry
              THEN /\ documents' = store[AllDocuments].data
                   /\ calls'[Len(calls')].invoked = <<>>
                   /\ calls'[Len(calls')].pc = "awaitLoad"
                   /\ sources' = sources \o config.sources
              ELSE /\ Len(sources') > 0 =>
                          /\ calls'[Len(calls')].invoked = <<sources'[1]>>
                          /\ calls'[Len(calls')].pc = "awaitSource"
                   /\ Len(sources') = 0 =>
                          /\ documents' = <<>>
                          /\ AllDocuments \in DOMAIN store'
                          /\ store'[AllDocuments].data = <<>>
        /\ \A c \in DOMAIN calls : PublishStep(c) =>
              /\ AllDocuments \in DOMAIN store'
              /\ store'[AllDocuments].data = documents'
              /\ store'[AllDocuments].expiresAt = now + config.cacheTimeout * 1000
        /\ \A c \in DOMAIN calls' : calls'[c].fromCache => calls'[c].invoked = <<>>
      ]_vars

\* C6 witness: one call was served from the cache, and a load has published
\* and cached its corpus
C6_Witness ==
    /\ \E c \in InitializeCalls : calls[c].fromCache /\ documents # <<>>
    /\ FinishedLoads # {}
    /\ AllDocuments \in DOMAIN store

\* C7: a refresh() is never served from the cache, and when its load has
\* finished it has called load() on every adapter that was registered when it
\* was called.
C7_RefreshReloads ==
    \A c \in RefreshCalls :
        /\ ~calls[c].fromCache
        /\ calls[c].pc \in {"awaitLoad", "done"} =>
              /\ Len(calls[c].invoked) >= calls[c].registered
              /\ Len(calls[c].results) = Len(calls[c].invoked)
              /\ \A k \in 1..calls[c].registered : calls[c].invoked[k] = sources[k]

\* C7 witness: a refresh() called over a live cache entry, while another call
\* was awaiting a load(), has finished after loading every registered adapter
C7_Witness ==
    \E c \in RefreshCalls :
        /\ calls[c].pc = "done"
        /\ calls[c].liveAtCall
        /\ calls[c].registered >= NumSources
        /\ Len(calls[c].invoked) >= calls[c].registered

\* C7 witness of the overlap: a refresh() begun while an initialize() was
\* awaiting a load() has finished
C7_OverlapReached ==
    \E c \in RefreshCalls :
        /\ calls[c].pc = "done"
        /\ calls[c].awaiting # {}
        /\ calls[c].registered >= NumSources

(* ======================== claims: the cache ============================ *)
\* the expiry instant of the most recent set() of key k: the time of the set
\* plus its ttl, or plus the default when it gave none
WrittenExpiry(k) == written[k].at + Nullish(written[k].ttl, defaultTTL)

\* the most recent set() of key k is neither deleted nor past its expiry
LiveWritten(k) == k \in DOMAIN written /\ now <= WrittenExpiry(k)

\* C8: get(key) returns the value of the most recent set(key) exactly when
\* now <= its expiry, and absent otherwise (so never a value past its
\* expiry); a stale entry it finds leaves the store, a live one stays.
C8_GetHonoursExpiry ==
    [][\A k \in Keys : CGet(k) =>
          /\ ret' = IF LiveWritten(k) THEN Some(written[k].value) ELSE Undefined
          /\ (k \in DOMAIN store /\ now > store[k].expiresAt) => k \notin DOMAIN store'
          /\ LiveWritten(k) => store' = store]_vars

\* C8 witness: get() found an entry past its expiry, set with a ttl of its
\* own shorter than the default, reported absent and removed it
C8_Witness ==
    /\ op.name = "get"
    /\ ret = Undefined
    /\ op.key \in DOMAIN written
    /\ written[op.key].ttl # Undefined
    /\ now > WrittenExpiry(op.key)
    /\ now <= written[op.key].at + defaultTTL
    /\ op.key \notin DOMAIN store

\* C8, the boundary: get() returned a value at the very instant of its expiry
C8_BoundaryReached ==
    /\ op.name = "get"
    /\ ret # Undefined
    /\ op.at = now
    /\ now = WrittenExpiry(op.key)

C10_CleanupSweepsExpiredOnly ==
    [][ /\ CCleanup =>
              /\ store' = [k \in {k \in DOMAIN store : now <= store[k].expiresAt} |-> store[k]]
              /\ DOMAIN store' = {k \in DOMAIN written : LiveWritten(k)}
        /\ (CCleanup /\ op.name = "cleanup" /\ op.at = now) => store' = store
        /\ (CSize /\ op.name = "cleanup" /\ op.at = now) =>
              ret' = Some(Cardinality({k \in DOMAIN written : LiveWritten(k)}))
      ]_vars

\* C10 witness: after cleanup() one key that was set is swept and another,
\* still live, is kept, and size() has reported the one entry
C10_Witness ==
    /\ op.name = "size"
    /\ ret = Some(1)
    /\ \E k1, k2 \in DOMAIN written :
          /\ k1 \notin DOMAIN store
          /\ now > WrittenExpiry(k1)
          /\ k2 \in DOMAIN store
          /\ now <= store[k2].expiresAt

\* C12 (as claimed): with cacheTimeout = 0 no loadDocuments() call is served
\* from a cached corpus, whatever the order of the calls and whether or not
\* the clock advances between the cache write and the next cache read.
C12_ZeroTimeoutNeverServesFromCache ==
    config.cacheTimeout = 0 => \A c \in DOMAIN calls : ~calls[c].fromCache

\* no two documents of docs have the same id
UniqueIds(docs) == \A i, j \in DOMAIN docs : docs[i].id = docs[j].id => i = j

\* the documents the sources of a load yielded, in the order they were yielded
RECURSIVE Yielded(_)
Yielded(results) ==
    IF results = <<>> THEN <<>>
    ELSE Yielded(SubSeq(results, 1, Len(results) - 1))
         \o (IF results[Len(results)].ok
             THEN SourceDocs(results[Len(results)].src) ELSE <<>>)

\* C13 (as claimed): after a load no two documents of the corpus have the same
\* id, and of the documents the sources yielded under one id the corpus keeps
\* the one yielded last.
C13_IdsUniqueLastWriteWins ==
    \A c \in FinishedLoads :
        /\ UniqueIds(Published(c))
        /\ \A i \in DOMAIN Yielded(calls[c].results) :
              LET y == Yielded(calls[c].results)
              IN  (\A j \in DOMAIN y : j > i => y[j].id # y[i].id)
                  => GetStandardById(Published(c), y[i].id) = Some(y[i])

(* ======================= claims: the server ============================ *)
\* the cache holds no unexpired corpus
CorpusExpired == ~LiveCorpusEntry

\* the corpus holds a document read from an earlier edition than the one the
\* sources provide now
CorpusBehind == \E i \in DOMAIN documents : documents[i].version # edition

\* the last request was answered from the edition the sources provide now
AnsweredFromCurrentEdition ==
    \/ /\ op.name \in {"getAllStandards", "getStandardsByCategory"}
       /\ ret # <<>>
       /\ \A i \in DOMAIN ret : ret[i].version = edition
    \/ /\ op.name = "getStandardById"
       /\ ret # Undefined
       /\ ret[1].version = edition /\ ret[1].content = edition

\* C11 (as claimed): once the sources have been edited and the TTL of the
\* 'all-documents' entry has elapsed, the queries eventually answer from the
\* edition the sources provide now, without anyone calling refresh().
C11_QueriesCatchUpAfterExpiry ==
    (Serving /\ CorpusBehind /\ CorpusExpired) ~> AnsweredFromCurrentEdition

\* the positions of the documents of the corpus whose id is id
Matches(id) == {i \in DOMAIN documents : documents[i].id = id}

\* C14: getStandardById(id) returns the first document in corpus order whose
\* id equals id, and undefined when the corpus holds no such document.
C14_GetByIdReturnsFirstMatch ==
    [][\A id \in QueryIds : QGetStandardById(id) =>
          IF Matches(id) = {}
          THEN ret' = Undefined
          ELSE \E i \in Matches(id) :
                  /\ \A j \in Matches(id) : i <= j
                  /\ ret' = Some(documents[i])]_vars

\* C14 witness: a lookup was answered with the first of two documents that
\* carry the id asked for
C14_Witness ==
    /\ op.name = "getStandardById"
    /\ ret # Undefined
    /\ \E i, j \in Matches(op.key) : i < j /\ ret[1] = documents[i]

\* a lookup of an id the corpus does not hold was answered with undefined
C14_AbsentReached ==
    /\ op.name = "getStandardById"
    /\ documents # <<>>
    /\ Matches(op.key) = {}
    /\ ret = Undefined

(* ======================== claims: the search =========================== *)
\* the terms of a query: its maximal runs of characters other than white
\* space, lowercased, each named by the position it starts at
TermStarts(query) ==
    {i \in DOMAIN query : ~IsSpace(query[i]) /\ (i = 1 \/ IsSpace(query[i - 1]))}

TermEnd(query, i) ==
    CHOOSE j \in i..Len(query) :
        /\ \A k \in i..j : ~IsSpace(query[k])
        /\ j = Len(query) \/ IsSpace(query[j + 1])

Term(query, i) == ToLowerCase(SubSeq(query, i, TermEnd(query, i)))

Bit(b) == IF b THEN 1 ELSE 0

\* what one term adds to the score of a document
TermScore(doc, term) ==
    10 * Bit(Includes(ToLowerCase(doc.title), term))
    + 5 * Bit(doc.description # <<>> /\ Includes(ToLowerCase(doc.description), term))
    + 7 * Cardinality({k \in DOMAIN doc.tags : Includes(ToLowerCase(doc.tags[k]), term)})
    + 3 * Bit(Includes(ToLowerCase(doc.category), term))
    + 1 * Bit(Includes(ToLowerCase(doc.content), term))

RECURSIVE SumOver(_, _)
SumOver(F(_), S) ==
    IF S = {} THEN 0
    ELSE LET x == CHOOSE y \in S : TRUE IN F(x) + SumOver(F, S \ {x})

\* the score the claims give a document for a query
ClaimedScore(doc, query) ==
    LET OfTermAt(i) == TermScore(doc, Term(query, i))
    IN  SumOver(OfTermAt, TermStarts(query))

\* the scores of the documents of the corpus for a query, by position
ClaimedScores(query) ==
    [i \in DOMAIN documents |-> ClaimedScore(documents[i], query)]

\* the entry of document doc in a result list, given its score
ClaimedResult(doc, score) ==
    [id |-> doc.id, title |-> doc.title, description |-> doc.description,
     category |-> doc.category, relevance |-> score]

\* C15: searchStandards(query) gives every document the sum, over the terms
\* of the query (a repeated term counted each time), of 10 for the title, 5
\* for the description, 7 for each tag, 3 for the category and 1 for the
\* content that include the term; on the two-document corpus "vue" finds
\* exactly frontend-vue-components and "nonexistent" finds nothing.
C15_SearchScoresAreWeightedSums ==
    [][op'.name = "searchStandards" =>
          /\ ~ret'.raised
          /\ \A score \in {ClaimedScores(op'.key)} :
                /\ \A i \in DOMAIN documents :
                      score[i] > 0
                      => \E k \in DOMAIN ret'.value :
                            ret'.value[k] = ClaimedResult(documents[i], score[i])
                /\ \A k \in DOMAIN ret'.value :
                      \E i \in DOMAIN documents :
                          ret'.value[k] = ClaimedResult(documents[i], score[i])
          /\ (documents = <<VueComponents, ApiRestful>> /\ op'.key = Queries.vue)
                => MapSeq(LAMBDA r : r.id, ret'.value) = <<VueComponents.id>>
          /\ (documents = <<VueComponents, ApiRestful>> /\ op'.key = Queries.nonexistent)
                => ret'.value = <<>>]_vars

\* C15 witness: a query that repeats its term was answered with a document
\* that has the term in its title, its description, two tags and its content
C15_Witness ==
    /\ op.name = "searchStandards"
    /\ op.key = Queries.vue_vue
    /\ \E k \in DOMAIN ret.value :
          ret.value[k].id = VueComponents.id /\ ret.value[k].relevance = 60

\* the answer to "vue" on the two-document corpus
C15_ExampleReached ==
    /\ op.name = "searchStandards"
    /\ op.key = Queries.vue
    /\ documents = <<VueComponents, ApiRestful>>
    /\ Len(ret.value) = 1

\* the documents that score, given the scores by position, and the place
\* of one of them in the ranking: after those that score more, and after
\* those before it in the corpus that score the same
Scoring(score) == {i \in DOMAIN score : score[i] > 0}

Rank(score, i) ==
    1 + Cardinality({j \in Scoring(score) :
            score[j] > score[i] \/ (score[j] = score[i] /\ j < i)})

\* C16: searchStandards(query) returns exactly the documents that score more
\* than 0 (none for an empty or blank query), by relevance descending, and
\* documents of equal relevance in corpus order.
C16_SearchRanksStably ==
    [][op'.name = "searchStandards" =>
          /\ ~ret'.raised
          /\ \A score \in {ClaimedScores(op'.key)} :
                /\ Len(ret'.value) = Cardinality(Scoring(score))
                /\ \A i \in Scoring(score) :
                      ret'.value[Rank(score, i)] = ClaimedResult(documents[i], score[i])
          /\ (\A i \in DOMAIN op'.key : IsSpace(op'.key[i])) => ret'.value = <<>>]_vars

\* C16 witness: an answer in which some documents tie and others do not
C16_Witness ==
    /\ op.name = "searchStandards"
    /\ Len(ret.value) > 3
    /\ \E k \in DOMAIN ret.value :
          k + 1 \in DOMAIN ret.value /\ ret.value[k].relevance = ret.value[k + 1].relevance
    /\ \E k \in DOMAIN ret.value :
          k + 1 \in DOMAIN ret.value /\ ret.value[k].relevance > ret.value[k + 1].relevance

\* a blank query was answered with nothing although the corpus is not empty
C16_BlankReached ==
    /\ op.name = "searchStandards"
    /\ op.key = Queries.blank
    /\ documents # <<>>
    /\ ret.value = <<>>

(* ========================= claims: the tools =========================== *)
\* C17: resolveStandard returns the first 10 entries of the ranking of
\* searchStandards, in its order, and the length of the whole ranking as
\* totalCount; for an empty or blank query it returns no result and
\* totalCount 0 and does not ask the manager.
C17_ResolveReturnsTopTen ==
    [][op'.name = "resolveStandard" =>
          /\ ~ret'.raised
          /\ IF \A i \in DOMAIN op'.key : IsSpace(op'.key[i])
             THEN /\ ret'.value.results = <<>>
                  /\ ret'.value.totalCount = 0
                  /\ ret'.asked = <<>>
             ELSE \A ranked \in {SearchStandards(documents, op'.key).value} :
                      /\ Len(ret'.value.results) <= 10
                      /\ \/ Len(ret'.value.results) = Len(ranked)
                         \/ Len(ret'.value.results) = 10
                      /\ \A k \in DOMAIN ret'.value.results :
                            ret'.value.results[k] = ranked[k]
                      /\ ret'.value.totalCount = Len(ranked)]_vars

\* C17 witness: a ranking of more than 10 entries was cut to 10
C17_Witness ==
    /\ op.name = "resolveStandard"
    /\ ~ret.raised
    /\ ret.value.totalCount > 10
    /\ Len(ret.value.results) = 10

\* a blank query was answered without asking the manager
C17_BlankReached ==
    /\ op.name = "resolveStandard"
    /\ op.key = Queries.blank
    /\ documents # <<>>
    /\ ret.asked = <<>>

(* ====================== claims: RemoteSource =========================== *)
\* a record the claim calls malformed: no content, blank content, or a front
\* matter block that does not parse
Malformed(standard) ==
    \/ "content" \in standard.absent
    \/ Trim(standard.content) = <<>>
    \/ StartsWith(standard.content, Fence) /\ Matter(standard.content).raised

\* the document of one record taken alone
DocumentOf(standard) == TransformStandards(<<standard>>).value[1]

\* C19: in JSON-API mode a record with empty or malformed content is skipped
\* and every other record of the response is still returned
C19_MalformedRecordDropsOnlyItself ==
    (remote.pc = "done" /\ remote.response.kind = "ok")
        => /\ \A k \in DOMAIN remote.response.standards :
                ~Malformed(remote.response.standards[k])
                    => DocumentOf(remote.response.standards[k]) \in Range(remote.result)
           /\ \A k \in DOMAIN remote.result :
                \E j \in DOMAIN remote.response.standards :
                    /\ ~Malformed(remote.response.standards[j])
                    /\ remote.result[k] = DocumentOf(remote.response.standards[j])

\* the part of C19 the code keeps: a record without content, or with blank
\* content, among others costs only itself
C19_EmptyContentSkippedAlone ==
    (/\ remote.pc = "done" /\ remote.response.kind = "ok"
     /\ \A k \in DOMAIN remote.response.standards :
            ~(StartsWith(remote.response.standards[k].content, Fence)
              /\ Matter(remote.response.standards[k].content).raised))
        => remote.result =
             MapSeq(DocumentOf, FilterSeq(LAMBDA r : ~Malformed(r), remote.response.standards))

C19_EmptySkipped ==
    /\ remote.pc = "done"
    /\ remote.response.standards = <<ApiRecord.plain, ApiRecord.empty, ApiRecord.matter>>
    /\ Len(remote.result) = 2

C19_BrokenDropsAll ==
    /\ remote.pc = "done"
    /\ remote.response.standards = <<ApiRecord.plain, ApiRecord.broken>>
    /\ remote.result = <<>>

(* ======================= claims: lookups by id ========================= *)
\* the last request looked up an id that no document of the corpus carries
UnknownIdLookedUp(name) == op.name = name /\ Serving /\ Matches(op.key) = {}

\* C18: a lookup by an id the corpus does not hold never raises:
\* getStandardById returns undefined, getStandardDocs returns the not-found
\* message with at most 3 suggestions, the top of the ranking of
\* searchStandards for the id, and a read of the resource returns too.
C18_UnknownIdNeverRaises ==
    /\ UnknownIdLookedUp("getStandardById") => ret = Undefined
    /\ UnknownIdLookedUp("getStandardDocs") =>
          /\ ~ret.raised
          /\ ret.value.kind = "notFound"
          /\ Len(ret.value.suggestions) <= 3
          /\ \A score \in {ClaimedScores(op.key)} :
                /\ \/ Len(ret.value.suggestions) = 3
                   \/ Len(ret.value.suggestions) = Cardinality(Scoring(score))
                /\ \A i \in Scoring(score) :
                      Rank(score, i) <= 3 =>
                          ret.value.suggestions[Rank(score, i)]
                              = [id |-> documents[i].id, title |-> documents[i].title]
    /\ UnknownIdLookedUp("readResource") => ~ret.raised

\* getStandardDocs raised on a corpus that holds a document without title
C18_DocsRaised ==
    /\ UnknownIdLookedUp("getStandardDocs")
    /\ ret.raised
    /\ \E i \in DOMAIN documents : "title" \in documents[i].absent

\* a read of a resource the corpus does not hold raised
C18_ReadRaised ==
    /\ UnknownIdLookedUp("readResource")
    /\ ret.raised
    /\ \A i \in DOMAIN documents : documents[i].absent = {}

\* on corpora whose documents all have a title and a category, the two
\* functions the claim names behave as it says
C18_HoldsOnTitledCorpora ==
    (\A i \in DOMAIN documents : documents[i].absent \cap {"title", "category"} = {})
        => /\ UnknownIdLookedUp("getStandardById") => ret = Undefined
           /\ UnknownIdLookedUp("getStandardDocs") =>
                 /\ ~ret.raised
                 /\ ret.value.kind = "notFound"
                 /\ ret.value.suggestions
                      = MapSeq(Suggestion,
                               Slice(SearchStandards(documents, op.key).value, 3))

\* getStandardDocs answered an unknown id with three suggestions out of more
C18_ThreeSuggested ==
    /\ UnknownIdLookedUp("getStandardDocs")
    /\ ~ret.raised
    /\ Len(ret.value.suggestions) = 3
    /\ Cardinality(Scoring(ClaimedScores(op.key))) > 3

(* ======================== claims: GitSource ============================ *)
\* a Markdown blob under the subpath, as the claim reads it: a file below the
\* directory GitPath whose name ends in .md or .markdown
UnderSubpath(item) ==
    /\ item.type = "blob"
    /\ StartsWith(item.path, GitPath \o <<"/">>)
    /\ \/ EndsWith(ToLowerCase(item.path), <<".", "m", "d">>)
       \/ EndsWith(ToLowerCase(item.path), <<".", "m", "a", "r", "k", "d", "o", "w", "n">>)

\* the request for a blob was answered with content that is not blank and
\* whose front matter parses
LoadsWell(answer) ==
    /\ answer.kind = "ok"
    /\ Trim(BlobContent(answer)) # <<>>
    /\ ~Matter(BlobContent(answer)).raised

\* the document of a blob that loads well
BlobDocument(item, answer) ==
    ParseMarkdown(BlobContent(answer), RelativePath(item.path), "git").value

\* the items of the tree whose blob was asked for and loaded well
Loaded == {i \in DOMAIN git.listing.tree :
              git.answers[i] # Undefined /\ LoadsWell(git.answers[i][1])}

\* their documents, by item
LoadedDocuments ==
    [i \in Loaded |-> BlobDocument(git.listing.tree[i], git.answers[i][1])]

\* C20: GitSource.load() never raises; when the tree listing fails it
\* resolves to []; otherwise a blob that fails is skipped alone: every
\* Markdown blob under the subpath was asked for, the result holds the
\* document of each one that loaded, and nothing but documents of blobs that
\* loaded.
C20_GitLoadSkipsFailedBlobsOnly ==
    git.pc = "done" =>
        /\ ~git.raised
        /\ git.listing.kind # "ok" => git.result = <<>>
        /\ git.listing.kind = "ok" =>
              /\ \A i \in DOMAIN git.listing.tree :
                    UnderSubpath(git.listing.tree[i]) => git.answers[i] # Undefined
              /\ \A docs \in {LoadedDocuments} :
                    /\ \A i \in DOMAIN docs :
                          UnderSubpath(git.listing.tree[i]) =>
                              \E k \in DOMAIN git.result : git.result[k] = docs[i]
                    /\ \A k \in DOMAIN git.result :
                          \E i \in DOMAIN docs : git.result[k] = docs[i]
                    /\ Len(git.result) = Cardinality(DOMAIN docs)

\* C20 witness: of two Markdown blobs under the subpath the first failed at
\* fetch and the second loaded: the result holds the second
C20_Witness ==
    /\ git.pc = "done"
    /\ git.listing.kind = "ok"
    /\ \E i, j \in DOMAIN git.listing.tree :
          /\ UnderSubpath(git.listing.tree[i]) /\ UnderSubpath(git.listing.tree[j])
          /\ git.answers[i] # Undefined /\ git.answers[j] # Undefined
          /\ git.answers[i][1].kind = "rejected"
          /\ LoadsWell(git.answers[j][1])
          /\ i < j
          /\ BlobDocument(git.listing.tree[j], git.answers[j][1]) \in Range(git.result)

\* a blob whose front matter does not parse was skipped and another loaded
C20_BrokenSkipped ==
    /\ git.pc = "done"
    /\ git.listing.kind = "ok"
    /\ \E i, j \in DOMAIN git.listing.tree :
          /\ git.answers[i] # Undefined /\ git.answers[j] # Undefined
          /\ git.answers[i][1].kind = "ok"
          /\ IsValidMarkdown(BlobContent(git.answers[i][1]))
          /\ ~LoadsWell(git.answers[i][1])
          /\ LoadsWell(git.answers[j][1])
          /\ Len(git.result) = 1

\* the tree listing failed and load() resolved to []
C20_TreeFailed ==
    /\ git.pc = "done"
    /\ git.listing.kind \in {"rejected", "status"}
    /\ git.result = <<>>

(* ================ claims: the manager, its life cycle ================== *)
\* the loads that called load() on the adapter of every configured source and
\* have published their result
ConsultedAll ==
    {k \in FinishedLoads :
        \A s \in Range(config.sources) :
            \E j \in DOMAIN calls[k].results : calls[k].results[j].src = s}

\* the step in which call c returns
CompleteStep(c) ==
    /\ c \in DOMAIN calls
    /\ calls[c].pc = "awaitLoad"
    /\ calls'[c].pc = "done"

\* C27 (as claimed): when an initialize() call completes, the corpus is the
\* result of a load that consulted every configured source, whatever ran
\* before it: also after a refresh() made before the first initialize().
C27_InitializeLoadsEverySource ==
    [][\A c \in DOMAIN calls :
          (CompleteStep(c) /\ calls[c].kind = "initialize")
          => \E k \in ConsultedAll : documents' = Published(k)]_vars

\* C27, the trace of the claim: refresh() ran on the new manager and cached
\* the empty corpus, then initialize() took it from the cache and returned
\* with no load() called by any call
C27_ReadyWithoutLoad ==
    /\ Len(calls) = 2
    /\ calls[1].kind = "refresh" /\ calls[1].registered = 0
    /\ calls[2].kind = "initialize" /\ calls[2].fromCache /\ calls[2].pc = "done"
    /\ initialized
    /\ documents = <<>>
    /\ \A c \in DOMAIN calls : calls[c].invoked = <<>>

\* C28: whenever the cache holds an entry under 'all-documents', expired or
\* not, the list it holds is the current corpus.
C28_CacheEntryIsCorpus ==
    AllDocuments \in DOMAIN store => store[AllDocuments].data = documents

\* C28 witness: two overlapping loads have published different corpora one
\* after the other, and the entry the later one wrote has expired
C28_Witness ==
    /\ AllDocuments \in DOMAIN store
    /\ now > store[AllDocuments].expiresAt
    /\ documents # <<>>
    /\ \E a, b \in FinishedLoads :
          /\ a \in calls[b].awaiting
          /\ Published(a) # Published(b)

\* C30: when every load() settles, every initialize() and refresh() call
\* returns, overlapping calls too; an initialize() that returns leaves the
\* manager initialized, and initialized never becomes false again.
C30_CallsCompleteAndStayReady ==
    /\ \A c \in 1..(MaxCalls + 1) :
          (c \in DOMAIN calls) ~> (c \in DOMAIN calls /\ calls[c].pc = "done")
    /\ [][\A c \in DOMAIN calls :
            (CompleteStep(c) /\ calls[c].kind = "initialize") => initialized']_vars
    /\ [][initialized => initialized']_vars

\* C30 witness: an initialize() and a refresh() that overlapped, one of whose
\* load() calls rejected, have both returned and the manager is initialized
C30_Witness ==
    /\ initialized
    /\ rejects > 0
    /\ \E a \in InitializeCalls, b \in RefreshCalls :
          /\ a \in calls[b].awaiting \/ b \in calls[a].awaiting
          /\ calls[a].pc = "done"
          /\ calls[b].pc = "done"

(* ======================= claims: the queries =========================== *)
\* C26: the five queries are read-only: a query leaves the cache, the corpus,
\* the adapter list and the initialized flag as they were and calls no
\* adapter load(), also when the cached corpus has expired.
C26_QueriesAreReadOnly ==
    [][ReadOnlyQuery => UNCHANGED <<store, documents, sources, initialized, calls>>]_vars

\* C26 witness: a search was answered from a corpus whose cache entry had
\* expired, and the entry is still there
C26_Witness ==
    /\ op.name = "searchStandards"
    /\ ~ret.raised /\ ret.value # <<>>
    /\ AllDocuments \in DOMAIN store
    /\ op.at > store[AllDocuments].expiresAt
    /\ op.at = now

(* ================= claims: GitSource, paths and order ================== *)
\* C25 (as claimed): load() asks only for Markdown blobs below the directory
\* GitPath and returns documents of such blobs only; a blob of a directory
\* whose name merely begins like GitPath is not loaded.
C25_OnlyBlobsUnderSubpath ==
    (git.pc = "done" /\ git.listing.kind = "ok") =>
        /\ \A i \in DOMAIN git.listing.tree :
              git.answers[i] # Undefined => UnderSubpath(git.listing.tree[i])
        /\ \A docs \in {LoadedDocuments} :
              \A k \in DOMAIN git.result :
                  \E i \in DOMAIN docs :
                      UnderSubpath(git.listing.tree[i]) /\ git.result[k] = docs[i]

\* C25, what the code does instead: the result holds the document of a blob
\* that is not below GitPath, under a path cut in the middle of a name
C25_SiblingLoaded ==
    /\ git.pc = "done"
    /\ \E i \in Loaded :
          /\ ~UnderSubpath(git.listing.tree[i])
          /\ \E k \in DOMAIN git.result :
                /\ git.result[k] = BlobDocument(git.listing.tree[i], git.answers[i][1])
                /\ git.result[k].path = <<"-", "o", "l", "d", "/", "x", ".", "m", "a", "r",
                                          "k", "d", "o", "w", "n">>

\* C29: the documents load() returns are in the order of their blobs in the
\* tree listing, in whatever order the requests for the blobs settled.
C29_ResultInTreeOrder ==
    (git.pc = "done" /\ git.listing.kind = "ok") =>
        \A docs \in {LoadedDocuments} :
            \A k1, k2 \in DOMAIN git.result :
                k1 < k2 =>
                    \E i1, i2 \in DOMAIN docs :
                        /\ i1 < i2
                        /\ git.result[k1] = docs[i1]
                        /\ git.result[k2] = docs[i2]

\* C29 witness: a blob settled before one listed earlier, another request
\* failed, and the result holds two documents
C29_Witness ==
    /\ git.pc = "done"
    /\ git.listing.kind = "ok"
    /\ git.inverted
    /\ Len(git.result) >= 2
    /\ \E i \in DOMAIN git.listing.tree :
          git.answers[i] # Undefined /\ git.answers[i][1].kind = "rejected"

(* ======================== claims: the parser =========================== *)
\* a file was loaded and gave a document
FileLoaded == op.name = "loadFile" /\ ret # Undefined

\* C22 (as claimed): every document an adapter makes of an input it accepts
\* has content that is not empty, a file that is only a front matter block
\* included.
C22_ContentNeverEmpty ==
    FileLoaded => ret[1].content # <<>> /\ Trim(ret[1].content) # <<>>

\* C22, the inputs for which it holds: a file with text outside its front
\* matter gives a document whose content is that text, trimmed
C22_TextGivesContent ==
    (FileLoaded /\ Trim(Matter(op.key.content).content) # <<>>)
    => ret[1].content = Trim(Matter(op.key.content).content)

\* C22, the failing case is reached: a file that is only a front matter block
\* was accepted and its document has the empty string as content
C22_EmptyContentLoaded ==
    /\ FileLoaded
    /\ op.key.content = RawContent.matterOnly
    /\ ret[1].content = <<>>

\* the id the claim derives from a path: a leading "./" and then a leading
\* "standards/" dropped, the extension .md or .markdown dropped, separators
\* turned into hyphens, all in lower case
ClaimedId(filePath) ==
    LET slashed == ReplaceAll(filePath, "\\", "/")
        below == IF StartsWith(slashed, <<".", "/">>) THEN From(slashed, 3) ELSE slashed
        inner == IF StartsWith(below, <<"s", "t", "a", "n", "d", "a", "r", "d", "s", "/">>)
                 THEN From(below, 11) ELSE below
        named == IF EndsWith(ToLowerCase(inner), <<".", "m", "d">>)
                 THEN SubSeq(inner, 1, Len(inner) - 3)
                 ELSE IF EndsWith(ToLowerCase(inner),
                                  <<".", "m", "a", "r", "k", "d", "o", "w", "n">>)
                 THEN SubSeq(inner, 1, Len(inner) - 9)
                 ELSE inner
    IN  ToLowerCase(ReplaceAll(named, "/", "-"))

\* the value of a front matter key of the file loaded
FrontMatter(key) == Field(Matter(op.key.content).data, key)

\* C23 (as claimed): the id of a document is the id of its front matter when
\* it has one, and otherwise the id derived from its path, with the
\* extension .md or .markdown dropped.
C23_IdDerivedFromPath ==
    FileLoaded =>
        ret[1].id = IF FrontMatter(<<"i", "d">>) # <<>> THEN FrontMatter(<<"i", "d">>)
                    ELSE ClaimedId(op.key.filePath)

\* C23, the part the code keeps: for a file named .md the id is the claimed
\* one, and frontend/vue/components.md gives frontend-vue-components
C23_HoldsForMd ==
    (FileLoaded /\ EndsWith(ToLowerCase(op.key.filePath), <<".", "m", "d">>))
    => /\ ret[1].id = IF FrontMatter(<<"i", "d">>) # <<>> THEN FrontMatter(<<"i", "d">>)
                      ELSE ClaimedId(op.key.filePath)
       /\ (op.key.filePath = VueComponents.category \o <<"/", "v", "u", "e", "/", "c", "o",
                                  "m", "p", "o", "n", "e", "n", "t", "s", ".", "m", "d">>
           /\ FrontMatter(<<"i", "d">>) = <<>>)
          => ret[1].id = VueComponents.id

\* C23, the failing case is reached: the id of backend/api.markdown keeps the
\* extension
C23_MarkdownExtensionKept ==
    /\ FileLoaded
    /\ op.key.filePath = <<"b", "a", "c", "k", "e", "n", "d", "/", "a", "p", "i", ".", "m",
                           "a", "r", "k", "d", "o", "w", "n">>
    /\ ret[1].id = <<"b", "a", "c", "k", "e", "n", "d", "-", "a", "p", "i", ".", "m", "a",
                     "r", "k", "d", "o", "w", "n">>

\* the parts of a path, with a leading "./" and a leading "standards" part
\* dropped
ClaimedParts(filePath) ==
    LET slashed == ReplaceAll(filePath, "\\", "/")
        below == IF StartsWith(slashed, <<".", "/">>) THEN From(slashed, 3) ELSE slashed
        parts == SplitOn(below, "/")
    IN  IF Head(parts) = <<"s", "t", "a", "n", "d", "a", "r", "d", "s">>
        THEN Tail(parts) ELSE parts

\* C24 (as claimed): category and subcategory of the front matter come first;
\* without them the category is the first part of the path, and "custom" for
\* a path that is a file name only, the subcategory is the second part when
\* the path has more than two parts and undefined otherwise; the category is
\* never empty.
C24_CategoryDerivedFromPath ==
    FileLoaded =>
        /\ ret[1].category # <<>>
        /\ ret[1].category =
              IF FrontMatter(<<"c", "a", "t", "e", "g", "o", "r", "y">>) # <<>>
              THEN FrontMatter(<<"c", "a", "t", "e", "g", "o", "r", "y">>)
              ELSE IF Len(ClaimedParts(op.key.filePath)) <= 1
              THEN <<"c", "u", "s", "t", "o", "m">>
              ELSE Head(ClaimedParts(op.key.filePath))
        /\ ret[1].subcategory =
              IF FrontMatter(<<"s", "u", "b", "c", "a", "t", "e", "g", "o", "r", "y">>) # <<>>
              THEN Some(FrontMatter(<<"s", "u", "b", "c", "a", "t", "e", "g", "o", "r", "y">>))
              ELSE IF Len(ClaimedParts(op.key.filePath)) > 2
              THEN Some(ClaimedParts(op.key.filePath)[2])
              ELSE Undefined

\* C24, the part the code keeps: the category is never empty, the front
\* matter comes first, the subcategory is as claimed, and a path of two or
\* more parts has its first part as category
C24_HoldsBelowADirectory ==
    FileLoaded =>
        /\ ret[1].category # <<>>
        /\ FrontMatter(<<"c", "a", "t", "e", "g", "o", "r", "y">>) # <<>>
              => ret[1].category = FrontMatter(<<"c", "a", "t", "e", "g", "o", "r", "y">>)
        /\ ( /\ FrontMatter(<<"c", "a", "t", "e", "g", "o", "r", "y">>) = <<>>
             /\ Len(ClaimedParts(op.key.filePath)) >= 2 )
              => ret[1].category = Head(ClaimedParts(op.key.filePath))
        /\ ret[1].subcategory =
              IF FrontMatter(<<"s", "u", "b", "c", "a", "t", "e", "g", "o", "r", "y">>) # <<>>
              THEN Some(FrontMatter(<<"s", "u", "b", "c", "a", "t", "e", "g", "o", "r", "y">>))
              ELSE IF Len(ClaimedParts(op.key.filePath)) > 2
              THEN Some(ClaimedParts(op.key.filePath)[2])
              ELSE Undefined

\* C24, the failing case is reached: the category of README.md, a file name
\* with no directory, is the file name
C24_FileNameAsCategory ==
    /\ FileLoaded
    /\ op.key.filePath = <<"R", "E", "A", "D", "M", "E", ".", "m", "d">>
    /\ ret[1].category = <<"R", "E", "A", "D", "M", "E", ".", "m", "d">>

(* ====================== claims: LocalSource ============================ *)
\* a directory listing without the entries that cannot be stat'ed, in its
\* subdirectories too
RECURSIVE Statable(_)
Statable(entries) ==
    IF entries = <<>> THEN <<>>
    ELSE (IF Head(entries).stat = "fails" THEN <<>>
          ELSE <<[Head(entries) EXCEPT !.entries = Statable(@)]>>)
         \o Statable(Tail(entries))

\* some entry of the listing, or of a directory below it, cannot be stat'ed
\* and is not the last of its directory
RECURSIVE StatFailsMidway(_)
StatFailsMidway(entries) ==
    \/ \E i \in DOMAIN entries : i < Len(entries) /\ entries[i].stat = "fails"
    \/ \E i \in DOMAIN entries : StatFailsMidway(entries[i].entries)

\* C21 (as claimed): LocalSource.load() never raises; a missing basePath gives
\* the empty list; an entry that cannot be stat'ed or read is dropped alone:
\* the result holds the document of every Markdown file that reads, outside
\* hidden directories and node_modules, as if the failing entries were absent.
C21_LocalLoadSkipsFailingEntriesOnly ==
    local.pc = "done" =>
        /\ ~local.raised
        /\ ~local.disk.exists => local.result = <<>>
        /\ local.result = Scan(Statable(local.disk.entries), BasePath, <<>>)

\* C21, the part the code keeps: load() never raises, a missing basePath
\* gives the empty list, a file that cannot be read and a directory that
\* cannot be listed are dropped alone, and so is an entry that cannot be
\* stat'ed when it is the last of its directory
C21_HoldsUnlessStatFailsMidway ==
    local.pc = "done" =>
        /\ ~local.raised
        /\ ~local.disk.exists => local.result = <<>>
        /\ ~StatFailsMidway(local.disk.entries)
              => local.result = Scan(Statable(local.disk.entries), BasePath, <<>>)

\* C21, the failing case is reached: the first entry cannot be stat'ed, the
\* second is a Markdown file that reads, and load() resolved to no documents
C21_LaterEntryDropped ==
    /\ local.pc = "done"
    /\ Len(local.disk.entries) = 2
    /\ local.disk.entries[1].stat = "fails"
    /\ local.disk.entries[2].stat = "file"
    /\ local.disk.entries[2].read = "ok"
    /\ EndsWith(local.disk.entries[2].name, <<".", "m", "d">>)
    /\ local.result = <<>>

\* C21: a file that cannot be read is dropped alone, the file after it and
\* the one in a directory are returned
C21_UnreadableSkippedAlone ==
    /\ local.pc = "done"
    /\ Len(local.disk.entries) = 2
    /\ local.disk.entries[1].read = "fails"
    /\ local.disk.entries[2].stat = "dir"
    /\ Len(local.result) = 1
    /\ local.result[1].path = <<"s", "2", "/", "f", "1", ".", "m", "d">>

====
